---- MODULE Spec2Model ----
(***************************************************************************)
(* The WhatsApp dialogue router: the priority chain of the webhook's POST  *)
(* handler (forwarded override, reply-to-list, pagination continuation,    *)
(* pending confirmation, fresh classification) over the five tables it     *)
(* reads and writes: tasks, orders, pending_confirmations,                 *)
(* pagination_state and user_message_context.                              *)
(*                                                                         *)
(* Conventions.  A handler is an operator from the current tables (a world *)
(* record w) and the message to the SET of its possible outcomes: the      *)
(* classifier's answer, the task matcher's answer and the failure of a     *)
(* store or repository call are choices of the environment, so one message *)
(* has several outcomes.  SQL NULL / JS undefined is 0 for numbers and ""  *)
(* for strings, which is also what JS truthiness tests treat as absent.    *)
(* Time is counted in minutes.                                             *)
(***************************************************************************)
EXTENDS Integers, Sequences, FiniteSets, TLC

VARIABLES
    tasks,                  \* table tasks
    orders,                 \* table orders
    pending_confirmations,  \* table pending_confirmations
    pagination_state,       \* table pagination_state
    user_message_context,   \* table user_message_context
    now,                    \* CURRENT_TIMESTAMP
    sent,                   \* per user: the lists sent to them, latest first
    received,               \* number of requests handled
    faults,                 \* number of requests in which a call failed
    last                    \* the request being answered, and its outcome

vars == <<tasks, orders, pending_confirmations, pagination_state,
          user_message_context, now, sent, received, faults, last>>

-----------------------------------------------------------------------------
(* Bounds of the model *)

MaxTime == 70           \* the clock stops here
MaxMessages == 3        \* requests per behaviour
MaxFaults == 1          \* requests in which a call fails, per behaviour
MaxSent == 2            \* list messages remembered per user
SeedTasks == 11         \* tasks of u1 in the seeded database
SeedOrders == 6         \* orders of u1 in the seeded database
MaxOrders == 8          \* rows of table orders
MaxTasks == 12          \* rows of table tasks

(* Program constants; durations in minutes *)

PageSize == 5
CursorTTL == 10
DuplicateTTL == 10
ConfirmationTTL == 60
DefaultFulfillmentDelay == 300
DuplicateTolerance == 1
DuplicateLimit == 100
MatchLimit == 1000

Users == {"u1", "u2"}

DayLen == 24 * 60       \* a day, in minutes

-----------------------------------------------------------------------------
(* Strings, as JavaScript's String methods compute them *)

StartsWith(s, p) == Len(s) >= Len(p) /\ SubSeq(s, 1, Len(p)) = p

Includes(s, p) ==
    \E i \in 1..(Len(s) - Len(p) + 1) : SubSeq(s, i, i + Len(p) - 1) = p

UpperCaseLetters == "ABCDEFGHIJKLMNOPQRSTUVWXYZ"
LowerCaseLetters == "abcdefghijklmnopqrstuvwxyz"

LowerChar(c) ==
    IF \E i \in 1..Len(UpperCaseLetters) : SubSeq(UpperCaseLetters, i, i) = c
    THEN LET i == CHOOSE j \in 1..Len(UpperCaseLetters) : SubSeq(UpperCaseLetters, j, j) = c
         IN SubSeq(LowerCaseLetters, i, i)
    ELSE c

RECURSIVE ToLowerCase(_)
ToLowerCase(s) ==
    IF Len(s) = 0 THEN ""
    ELSE LowerChar(SubSeq(s, 1, 1)) \o ToLowerCase(SubSeq(s, 2, Len(s)))

RECURSIVE TrimStart(_)
TrimStart(s) ==
    IF Len(s) > 0 /\ SubSeq(s, 1, 1) = " " THEN TrimStart(SubSeq(s, 2, Len(s))) ELSE s

RECURSIVE TrimEnd(_)
TrimEnd(s) ==
    IF Len(s) > 0 /\ SubSeq(s, Len(s), Len(s)) = " "
    THEN TrimEnd(SubSeq(s, 1, Len(s) - 1)) ELSE s

Trim(s) == TrimEnd(TrimStart(s))

Min(a, b) == IF a < b THEN a ELSE b

Range(q) == {q[i] : i \in DOMAIN q}

-----------------------------------------------------------------------------
(* The repository: crud.ts over tables tasks and orders *)

\* ORDER BY <date> ASC NULLS LAST, created_at DESC.  Rows are inserted with
\* increasing serial ids and creation times, so created_at DESC is id DESC.
RowBefore(a, b) ==
    IF a.d = b.d THEN a.r.id > b.r.id
    ELSE IF a.d = 0 THEN FALSE
    ELSE IF b.d = 0 THEN TRUE
    ELSE a.d < b.d

RECURSIVE OrderByDate(_)
OrderByDate(S) ==
    IF S = {} THEN <<>>
    ELSE LET m == CHOOSE x \in S : \A y \in S : x = y \/ RowBefore(x, y)
         IN <<m.r>> \o OrderByDate(S \ {m})

\* OFFSET offset LIMIT limit
Page(q, offset, limit) ==
    IF offset >= Len(q) THEN <<>> ELSE SubSeq(q, offset + 1, Min(offset + limit, Len(q)))

getTasks(w, userNumber, filters) ==
    LET sel == {t \in w.tasks : /\ t.user_number = userNumber
                                /\ (filters.status # "" => t.status = filters.status)}
        rows == OrderByDate({[d |-> t.due_date, r |-> t] : t \in sel})
    IN [tasks |-> Page(rows, filters.offset, filters.limit), total |-> Cardinality(sel)]

getOrders(w, userNumber, filters) ==
    LET sel == {o \in w.orders : /\ o.user_number = userNumber
                                 /\ (filters.status # "" => o.status = filters.status)}
        rows == OrderByDate({[d |-> o.fulfillment_date, r |-> o] : o \in sel})
    IN [orders |-> Page(rows, filters.offset, filters.limit), total |-> Cardinality(sel)]

\* UPDATE tasks SET ... WHERE id = $n: the fields the payload defines
ApplyTaskUpdates(t, updates) ==
    [t EXCEPT !.status = IF updates.status # "" THEN updates.status ELSE @,
              !.title = IF updates.title # "" THEN updates.title ELSE @]

TaskExists(w, taskId) == \E t \in w.tasks : t.id = taskId

updateTask(w, taskId, updates) ==
    [w EXCEPT !.tasks = {IF t.id = taskId THEN ApplyTaskUpdates(t, updates) ELSE t : t \in @}]

ApplyOrderUpdates(o, updates) ==
    [o EXCEPT !.status = IF updates.status # "" THEN updates.status ELSE @,
              !.product_name = IF updates.productName # "" THEN updates.productName ELSE @,
              !.quantity = IF updates.quantity # 0 THEN updates.quantity ELSE @]

\* the rows UPDATE returns are not looked at
OrderExistsUnchecked(w, orderId) == TRUE

OrderExists(w, orderId) == \E o \in w.orders : o.order_id = orderId

updateOrder(w, orderId, updates) ==
    [w EXCEPT !.orders = {IF o.order_id = orderId THEN ApplyOrderUpdates(o, updates) ELSE o : o \in @}]

\* parseDateTime of date-utils: relative dates with a time of day; 0 when the
\* text is no date.
ParseDateTime(text, t) ==
    IF ToLowerCase(Trim(text)) = "tomorrow 5pm" THEN ((t \div DayLen) + 1) * DayLen + 17 * 60
    ELSE 0

\* the older parser createOrder falls back to, on the texts the model sends
FallbackParse(text, t) ==
    IF ToLowerCase(Trim(text)) = "tomorrow" THEN t + DayLen ELSE 0

NextSerial(rows) == Cardinality(rows) + 1

OrderIdOf(id) == "ORD-" \o ToString(id)

\* the row createOrder inserts
NewOrderRow(w, userNumber, productName, quantity, fulfillmentDate, t) ==
    LET p1 == IF fulfillmentDate # "" THEN ParseDateTime(fulfillmentDate, t) ELSE 0
        p2 == IF fulfillmentDate # "" /\ p1 = 0 THEN FallbackParse(fulfillmentDate, t) ELSE p1
        parsedFulfillmentDate == IF p2 = 0 THEN t + DefaultFulfillmentDelay ELSE p2
        id == NextSerial(w.orders)
    IN [id |-> id, user_number |-> userNumber, order_id |-> OrderIdOf(id),
        product_name |-> productName, quantity |-> quantity, status |-> "pending",
        fulfillment_date |-> parsedFulfillmentDate]

createOrder(w, userNumber, productName, quantity, fulfillmentDate, t) ==
    [w EXCEPT !.orders = @ \cup {NewOrderRow(w, userNumber, productName, quantity, fulfillmentDate, t)}]

-----------------------------------------------------------------------------
(* The reference resolver: utils.ts *)

Digits == "0123456789"

IsDigit(c) == \E i \in 1..Len(Digits) : SubSeq(Digits, i, i) = c

DigitValue(c) == (CHOOSE i \in 1..Len(Digits) : SubSeq(Digits, i, i) = c) - 1

\* \w of a regular expression
IsWordChar(c) ==
    \/ IsDigit(c)
    \/ c = "_"
    \/ \E i \in 1..Len(LowerCaseLetters) :
          SubSeq(LowerCaseLetters, i, i) = c \/ SubSeq(UpperCaseLetters, i, i) = c

\* \s of a regular expression, on the characters the model sends
IsSpace(c) == c = " "

CharAt(s, i) == SubSeq(s, i, i)

\* \b at the gap before position i (1..Len(s)+1)
WordBoundary(s, i) ==
    LET before == i > 1 /\ IsWordChar(CharAt(s, i - 1))
        after == i <= Len(s) /\ IsWordChar(CharAt(s, i))
    IN before # after

RECURSIVE ParseInt(_)
ParseInt(ds) ==
    IF Len(ds) = 0 THEN 0
    ELSE 10 * ParseInt(SubSeq(ds, 1, Len(ds) - 1)) + DigitValue(CharAt(ds, Len(ds)))

\* the maximal runs of digits of s, as <<first, last>> index pairs
DigitRuns(s) ==
    {<<a, b>> \in (1..Len(s)) \X (1..Len(s)) :
        /\ a <= b
        /\ \A i \in a..b : IsDigit(CharAt(s, i))
        /\ (a = 1 \/ ~IsDigit(CharAt(s, a - 1)))
        /\ (b = Len(s) \/ ~IsDigit(CharAt(s, b + 1)))}

\* s holds p at position i
MatchAt(s, i, p) == i >= 1 /\ i + Len(p) - 1 <= Len(s) /\ SubSeq(s, i, i + Len(p) - 1) = p

\* new RegExp(`\\b${word}\\b`, 'i').test(s), s lower-cased
HasWord(s, word) ==
    \E i \in 1..Len(s) :
        /\ MatchAt(s, i, word)
        /\ WordBoundary(s, i)
        /\ WordBoundary(s, i + Len(word))

\* Object.entries(ordinalWords), in insertion order
OrdinalWords ==
    << <<"first", 1>>, <<"1st", 1>>, <<"second", 2>>, <<"2nd", 2>>, <<"third", 3>>,
       <<"3rd", 3>>, <<"fourth", 4>>, <<"4th", 4>>, <<"fifth", 5>>, <<"5th", 5>>,
       <<"sixth", 6>>, <<"6th", 6>>, <<"seventh", 7>>, <<"7th", 7>>, <<"eighth", 8>>,
       <<"8th", 8>>, <<"ninth", 9>>, <<"9th", 9>>, <<"tenth", 10>>, <<"10th", 10>> >>

RECURSIVE SortAscending(_)
SortAscending(S) ==
    IF S = {} THEN <<>>
    ELSE LET m == CHOOSE x \in S : \A y \in S : x <= y
         IN <<m>> \o SortAscending(S \ {m})

\* the numerals alone: the loop over ordinalWords is left out
parseMultipleWithoutOrdinalWords(message, maxNumber) ==
    LET lowerMessage == Trim(ToLowerCase(message))
        fromDigits == {ParseInt(SubSeq(lowerMessage, r[1], r[2])) : r \in DigitRuns(lowerMessage)}
    IN SortAscending({n \in fromDigits : n > 0 /\ n <= maxNumber})

\* every match is pushed, in the order found, and the list is returned as it is:
\* no test of includes, no sort
parseMultipleAsFound(message, maxNumber) ==
    LET lowerMessage == Trim(ToLowerCase(message))
        runs == {r \in DigitRuns(lowerMessage) :
                    /\ ParseInt(SubSeq(lowerMessage, r[1], r[2])) > 0
                    /\ ParseInt(SubSeq(lowerMessage, r[1], r[2])) <= maxNumber}
        RECURSIVE inOrder(_)
        inOrder(R) == IF R = {} THEN <<>>
                      ELSE LET r == CHOOSE x \in R : \A y \in R : x[1] <= y[1]
                           IN <<ParseInt(SubSeq(lowerMessage, r[1], r[2]))>> \o inOrder(R \ {r})
        words == SelectSeq(OrdinalWords,
                           LAMBDA e : HasWord(lowerMessage, e[1]) /\ e[2] <= maxNumber)
    IN inOrder(runs) \o [i \in 1..Len(words) |-> words[i][2]]

parseMultipleOrderNumbersFromMessage(message, maxNumber) ==
    LET lowerMessage == Trim(ToLowerCase(message))
        fromDigits == {ParseInt(SubSeq(lowerMessage, r[1], r[2])) : r \in DigitRuns(lowerMessage)}
        numbers == {n \in fromDigits : n > 0 /\ n <= maxNumber}
        words == {OrdinalWords[i][2] : i \in {j \in DOMAIN OrdinalWords :
                      /\ HasWord(lowerMessage, OrdinalWords[j][1])
                      /\ OrdinalWords[j][2] <= maxNumber}}
    IN SortAscending(numbers \cup words)

Suffixes == {"st", "nd", "rd", "th"}

\* the end of the whitespace run starting at i, or 0 when there is none
RECURSIVE SpacesEnd(_, _)
SpacesEnd(s, i) ==
    IF i <= Len(s) /\ IsSpace(CharAt(s, i))
    THEN (IF i + 1 <= Len(s) /\ IsSpace(CharAt(s, i + 1)) THEN SpacesEnd(s, i + 1) ELSE i)
    ELSE 0

\* a pattern's first match: of the runs that match, the leftmost
Leftmost(hits) ==
    IF hits = {} THEN {} ELSE {CHOOSE r \in hits : \A q \in hits : r[1] <= q[1]}

\* /(?:order|task|item|number)\s+(\d+)/i: the digit run of the leftmost match
PatternKeywordNumber(s) ==
    LET hit(i) == {r \in DigitRuns(s) :
                     \E k \in {"order", "task", "item", "number"} :
                        /\ MatchAt(s, i, k)
                        /\ SpacesEnd(s, i + Len(k)) # 0
                        /\ r[1] = SpacesEnd(s, i + Len(k)) + 1}
        starts == {i \in 1..Len(s) : hit(i) # {}}
    IN IF starts = {} THEN {}
       ELSE hit(CHOOSE i \in starts : \A j \in starts : i <= j)

\* /(\d+)(?:st|nd|rd|th)?\s+(?:order|task|item)/i
PatternNumberKeyword(s) ==
    LET follows(i) == /\ SpacesEnd(s, i) # 0
                      /\ \E k \in {"order", "task", "item"} : MatchAt(s, SpacesEnd(s, i) + 1, k)
    IN Leftmost({r \in DigitRuns(s) :
                    \/ \E x \in Suffixes : MatchAt(s, r[2] + 1, x) /\ follows(r[2] + 3)
                    \/ follows(r[2] + 1)})

\* /\b(\d+)(?:st|nd|rd|th)\b/i
PatternOrdinalNumber(s) ==
    Leftmost({r \in DigitRuns(s) :
                 /\ WordBoundary(s, r[1])
                 /\ \E x \in Suffixes : MatchAt(s, r[2] + 1, x)
                 /\ WordBoundary(s, r[2] + 3)})

\* /^(\d+)$/
PatternWholeNumber(s) == {r \in DigitRuns(s) : r[1] = 1 /\ r[2] = Len(s)}

\* /\b(\d+)\b/
PatternBareNumber(s) ==
    Leftmost({r \in DigitRuns(s) : WordBoundary(s, r[1]) /\ WordBoundary(s, r[2] + 1)})

\* numericPatterns, in order: each pattern's first match, as a set of 0 or 1 runs
NumericPatterns(s) ==
    << PatternKeywordNumber(s), PatternNumberKeyword(s), PatternOrdinalNumber(s),
       PatternWholeNumber(s), PatternBareNumber(s) >>

\* the loop without its test against maxNumber
FirstInRangeUnchecked(s, pats, maxNumber) ==
    LET value(k) == LET r == CHOOSE q \in pats[k] : TRUE
                    IN ParseInt(SubSeq(s, r[1], r[2]))
        good == {k \in DOMAIN pats : pats[k] # {} /\ value(k) > 0}
    IN IF good # {} THEN value(CHOOSE k \in good : \A i \in good : k <= i) ELSE 0

\* the loop returns with the first pattern that matches, in range or not
FirstInRangeStoppingAtFirstMatch(s, pats, maxNumber) ==
    LET value(k) == LET r == CHOOSE q \in pats[k] : TRUE
                    IN ParseInt(SubSeq(s, r[1], r[2]))
        matching == {k \in DOMAIN pats : pats[k] # {}}
        first == CHOOSE k \in matching : \A i \in matching : k <= i
    IN IF matching # {} /\ value(first) > 0 /\ value(first) <= maxNumber
       THEN value(first) ELSE 0

\* the loop over numericPatterns: the number of the first pattern whose match is
\* within 1..maxNumber, 0 when there is none
FirstInRange(s, pats, maxNumber) ==
    LET value(k) == LET r == CHOOSE q \in pats[k] : TRUE
                    IN ParseInt(SubSeq(s, r[1], r[2]))
        good == {k \in DOMAIN pats : pats[k] # {} /\ value(k) > 0 /\ value(k) <= maxNumber}
    IN IF good # {} THEN value(CHOOSE k \in good : \A i \in good : k <= i) ELSE 0

\* the loop over ordinalWords: the entries whose word the message holds
OrdinalsWithin(lowerMessage, maxNumber) ==
    {j \in DOMAIN OrdinalWords :
        /\ HasWord(lowerMessage, OrdinalWords[j][1])
        /\ OrdinalWords[j][2] <= maxNumber}

\* 0 stands for null
\* the two loops on the lower-cased message: ordinal words win over numerals
FirstNumber(lowerMessage, ordinals, maxNumber) ==
    IF ordinals # {}
    THEN OrdinalWords[CHOOSE j \in ordinals : \A i \in ordinals : j <= i][2]
    ELSE FirstInRange(lowerMessage, NumericPatterns(lowerMessage), maxNumber)

parseOrderNumberFromMessage(message, maxNumber) ==
    LET lowerMessage == ToLowerCase(message)
    IN FirstNumber(lowerMessage, OrdinalsWithin(lowerMessage, maxNumber), maxNumber)

-----------------------------------------------------------------------------
(* The bodies of the messages users send *)

\* the answers to a question: each word of the tests of handleConfirmation, and a
\* sentence that begins with one
Answers ==
    {"yes", "y", "confirm", "yes please", "no", "n", "cancel", "nope",
     "new", "new one", "update", "update it"}

\* replies to a list
References == {"2 done", "7 done", "mark 1 and 3 as done", "done", "2 cancel"}

\* the bodies that continue a list: the two words, and a body that begins with
\* "next" once trimmed and lower-cased
Triggers == {"next", "more", " Next page "}

Bodies == {"hi"} \cup Answers \cup References \cup Triggers

\* the longest list a number is resolved against
MaxListed == IF MaxOrders > PageSize THEN MaxOrders ELSE PageSize

\* the two parsers on the bodies above, computed once
OrderNumberOf ==
    [message \in Bodies, maxNumber \in 0..MaxListed |->
        parseOrderNumberFromMessage(message, maxNumber)]

OrderNumbersOf ==
    [message \in Bodies, maxNumber \in 0..MaxListed |->
        parseMultipleOrderNumbersFromMessage(message, maxNumber)]

-----------------------------------------------------------------------------
(* Outcomes of a handler *)

\* the calls to external collaborators and to the database that may throw
Throwing ==
    {"getTasks", "getOrders", "createTask",
     "createOrder", "updateTask", "updateOrder", "bulkUpdateTasks", "bulkUpdateOrders",
     "tasks.select",
     "pagination_state.select", "pagination_state.insert", "pagination_state.update",
     "pagination_state.delete", "user_message_context.select",
     "user_message_context.upsert", "pending_confirmations.select",
     "pending_confirmations.insert", "pending_confirmations.upsert",
     "pending_confirmations.delete"}

\* the calls that may throw in the request at hand
FailPoints == IF faults < MaxFaults THEN Throwing ELSE {}

NoList == [entity_type |-> "", ids |-> <<>>, offset |-> 0]

\* reply "" is JavaScript's null: the handler does not claim the message
Outcome(w, reply, calls, failed) ==
    [w |-> w, reply |-> reply, calls |-> calls, failed |-> failed, threw |-> FALSE,
     list |-> NoList, updated |-> {}, by |-> ""]

\* an exception that leaves the handler
Thrown(w, calls, failed) ==
    [w |-> w, reply |-> "", calls |-> calls, failed |-> failed, threw |-> TRUE,
     list |-> NoList, updated |-> {}, by |-> ""]

\* names of the rows a request has modified
TaskKey(taskId) == "task:" \o ToString(taskId)

OrderKey(orderId) == "order:" \o orderId

\* the outcomes of one call: it throws (onThrow) or it returns (onReturn)
Call(label, onThrow, onReturn) ==
    (IF label \in FailPoints THEN onThrow ELSE {}) \cup onReturn

-----------------------------------------------------------------------------
(* The context store: the three per-user tables *)

\* the position map written with a list: key (offset + index + 1).toString()
MappingsOf(ids, offset) ==
    [k \in {ToString(offset + i) : i \in 1..Len(ids)} |->
        ids[CHOOSE i \in 1..Len(ids) : ToString(offset + i) = k]]

EmptyMappings == [k \in {} |-> 0]

\* INSERT INTO user_message_context ... ON CONFLICT (user_number) DO UPDATE SET
\* entity_type, task_ids, task_mappings
SaveTaskContext(w, userNumber, taskIds, taskMappings) ==
    LET old == {c \in w.ctx : c.user_number = userNumber}
        fresh == [user_number |-> userNumber, entity_type |-> "task",
                  order_ids |-> <<>>, task_ids |-> taskIds,
                  order_mappings |-> EmptyMappings, task_mappings |-> taskMappings]
    IN [w EXCEPT !.ctx =
         IF old = {} THEN @ \cup {fresh}
         ELSE (@ \ old) \cup {[c EXCEPT !.entity_type = "task", !.task_ids = taskIds,
                                        !.task_mappings = taskMappings] : c \in old}]

\* ... ON CONFLICT (user_number) DO UPDATE SET entity_type, order_ids, order_mappings
SaveOrderContext(w, userNumber, orderIds, orderMappings) ==
    LET old == {c \in w.ctx : c.user_number = userNumber}
        fresh == [user_number |-> userNumber, entity_type |-> "order",
                  order_ids |-> orderIds, task_ids |-> <<>>,
                  order_mappings |-> orderMappings, task_mappings |-> EmptyMappings]
    IN [w EXCEPT !.ctx =
         IF old = {} THEN @ \cup {fresh}
         ELSE (@ \ old) \cup {[c EXCEPT !.entity_type = "order", !.order_ids = orderIds,
                                        !.order_mappings = orderMappings] : c \in old}]

\* WHERE user_number = $1 AND expires_at > CURRENT_TIMESTAMP
LiveRows(rows, userNumber, t) ==
    {r \in rows : r.user_number = userNumber /\ r.expires_at > t}

\* the cursor is read without the test of expires_at
SelectPaginationIgnoringExpiry(w, userNumber, t) ==
    LET live == {r \in w.cur : r.user_number = userNumber}
    IN {r \in live : \A q \in live : q.created_at <= r.created_at}

\* SELECT * FROM pagination_state WHERE user_number = $1 AND expires_at >
\* CURRENT_TIMESTAMP ORDER BY created_at DESC LIMIT 1: a set of 0 or 1 rows
SelectPagination(w, userNumber, t) ==
    LET live == LiveRows(w.cur, userNumber, t)
    IN {r \in live : \A q \in live : q.created_at <= r.created_at}

\* UNIQUE(user_number, entity_type)
PaginationConflict(w, userNumber, entityType) ==
    \E r \in w.cur : r.user_number = userNumber /\ r.entity_type = entityType

\* INSERT INTO pagination_state (user_number, entity_type, offset_count,
\* total_count, filters).  created_at orders a user's rows by age: the new row is
\* the youngest, which is all that ORDER BY created_at reads.
InsertPagination(w, userNumber, entityType, total, filters, t) ==
    LET others == {r \in w.cur : r.user_number = userNumber}
        row == [user_number |-> userNumber, entity_type |-> entityType,
                offset_count |-> 0, total_count |-> total, filters |-> filters,
                created_at |-> Cardinality(others) + 1, expires_at |-> t + CursorTTL]
    IN [w EXCEPT !.cur = @ \cup {row}]

\* DELETE FROM pagination_state WHERE user_number = $1 AND entity_type = $2
DeletePaginationOf(w, userNumber, entityType) ==
    LET gone == {r \in w.cur : r.user_number = userNumber /\ r.entity_type = entityType}
        kept == {r \in w.cur : r.user_number = userNumber} \ gone
    IN [w EXCEPT !.cur = ((@ \ gone) \ kept) \cup {[r EXCEPT !.created_at = 1] : r \in kept}]

\* DELETE FROM pagination_state WHERE id = $1
DeletePagination(w, row) == DeletePaginationOf(w, row.user_number, row.entity_type)

\* the expiry is renewed and the offset left where it was
AdvancePaginationInPlace(w, row, newOffset, t) ==
    [w EXCEPT !.cur = (@ \ {row}) \cup {[row EXCEPT !.expires_at = t + CursorTTL]}]

\* UPDATE pagination_state SET offset_count = $1, expires_at = CURRENT_TIMESTAMP +
\* INTERVAL '10 minutes' WHERE id = $2
AdvancePagination(w, row, newOffset, t) ==
    [w EXCEPT !.cur = (@ \ {row}) \cup
        {[row EXCEPT !.offset_count = newOffset, !.expires_at = t + CursorTTL]}]

-----------------------------------------------------------------------------
(* pagination-handler.ts *)

NoMoreItems == "No more items to show. Please request your tasks or orders again."

isNext(messageBody) ==
    messageBody = "next" \/ messageBody = "more" \/ StartsWith(messageBody, "next")

TaskIds(rows) == [i \in 1..Len(rows) |-> rows[i].id]

\* o.order_id || o.id.toString()
OrderIds(rows) ==
    [i \in 1..Len(rows) |-> IF rows[i].order_id # "" THEN rows[i].order_id
                            ELSE ToString(rows[i].id)]

\* the cursor kept whether or not rows remain behind the page
SettlePaginationKeepingCursor(w, row, total, newOffset, shown, t, reply, calls, list) ==
    Call("pagination_state.update",
         {[Outcome(w, reply.sorry, calls \cup {"pagination_state.update"},
                   {"pagination_state.update"}) EXCEPT !.list = NoList]},
         {[Outcome(AdvancePagination(w, row, newOffset, t), reply.page,
                   calls \cup {"pagination_state.update"}, {}) EXCEPT !.list = list]})

\* the cursor after a page at newOffset has been shown
SettlePagination(w, row, total, newOffset, shown, t, reply, calls, list) ==
    IF total > newOffset + shown
    THEN Call("pagination_state.update",
              {[Outcome(w, reply.sorry, calls \cup {"pagination_state.update"},
                        {"pagination_state.update"}) EXCEPT !.list = NoList]},
              {[Outcome(AdvancePagination(w, row, newOffset, t), reply.page,
                        calls \cup {"pagination_state.update"}, {}) EXCEPT !.list = list]})
    ELSE Call("pagination_state.delete",
              {Outcome(w, reply.sorry, calls \cup {"pagination_state.delete"},
                       {"pagination_state.delete"})},
              {[Outcome(DeletePagination(w, row), reply.page,
                        calls \cup {"pagination_state.delete"}, {}) EXCEPT !.list = list]})

handleTaskPagination(w, userNumber, filters, newOffset, row, t, calls0) ==
    LET sorry == "I'm sorry, I couldn't retrieve the next tasks. Please try again."
        result == getTasks(w, userNumber, [filters EXCEPT !.offset = newOffset, !.limit = PageSize])
        calls1 == calls0 \cup {"getTasks"}
        taskIds == TaskIds(result.tasks)
        taskMappings == MappingsOf(taskIds, newOffset)
        calls2 == calls1 \cup {"user_message_context.upsert"}
    IN Call("getTasks", {Outcome(w, sorry, calls1, {"getTasks"})},
         IF Len(result.tasks) > 0
         THEN Call("user_message_context.upsert",
                {Outcome(w, sorry, calls2, {"user_message_context.upsert"})},
                SettlePagination(SaveTaskContext(w, userNumber, taskIds, taskMappings),
                    row, result.total, newOffset, Len(result.tasks), t,
                    [sorry |-> sorry, page |-> "formatTaskResponse"], calls2,
                    [entity_type |-> "task", ids |-> taskIds, offset |-> newOffset]))
         ELSE Call("pagination_state.delete",
                {Outcome(w, sorry, calls1 \cup {"pagination_state.delete"},
                         {"pagination_state.delete"})},
                {Outcome(DeletePagination(w, row), "No more tasks to show.",
                         calls1 \cup {"pagination_state.delete"}, {})}))

handleOrderPagination(w, userNumber, filters, newOffset, row, t, calls0) ==
    LET sorry == "I'm sorry, I couldn't retrieve the next orders. Please try again."
        result == getOrders(w, userNumber, [filters EXCEPT !.offset = newOffset, !.limit = PageSize])
        calls1 == calls0 \cup {"getOrders"}
        orderIds == OrderIds(result.orders)
        orderMappings == MappingsOf(orderIds, newOffset)
        calls2 == calls1 \cup {"user_message_context.upsert"}
    IN Call("getOrders", {Outcome(w, sorry, calls1, {"getOrders"})},
         IF Len(result.orders) > 0
         THEN Call("user_message_context.upsert",
                {Outcome(w, sorry, calls2, {"user_message_context.upsert"})},
                SettlePagination(SaveOrderContext(w, userNumber, orderIds, orderMappings),
                    row, result.total, newOffset, Len(result.orders), t,
                    [sorry |-> sorry, page |-> "formatOrderResponse"], calls2,
                    [entity_type |-> "order", ids |-> orderIds, offset |-> newOffset]))
         ELSE Call("pagination_state.delete",
                {Outcome(w, sorry, calls1 \cup {"pagination_state.delete"},
                         {"pagination_state.delete"})},
                {Outcome(DeletePagination(w, row), "No more orders to show.",
                         calls1 \cup {"pagination_state.delete"}, {})}))

\* the stage returns null when it finds no cursor
NoCursorFallsThrough(w, calls) == {Outcome(w, "", calls, {})}

\* no live cursor: the static terminal message
NoCursorReply(w, calls) == {Outcome(w, NoMoreItems, calls, {})}

handlePagination(w, userNumber, messageBody, t) ==
    IF ~isNext(messageBody) THEN {Outcome(w, "", {}, {})}
    ELSE LET calls == {"pagination_state.select"}
             found == SelectPagination(w, userNumber, t)
         IN Call("pagination_state.select", {Thrown(w, calls, calls)},
              IF found = {} THEN NoCursorReply(w, calls)
              ELSE LET pagination == CHOOSE r \in found : TRUE
                       newOffset == pagination.offset_count + PageSize
                   IN IF pagination.entity_type = "task"
                      THEN handleTaskPagination(w, userNumber, pagination.filters,
                                                newOffset, pagination, t, calls)
                      ELSE IF pagination.entity_type = "order"
                      THEN handleOrderPagination(w, userNumber, pagination.filters,
                                                 newOffset, pagination, t, calls)
                      ELSE Call("pagination_state.delete",
                             {Thrown(w, calls \cup {"pagination_state.delete"},
                                     {"pagination_state.delete"})},
                             {Outcome(DeletePagination(w, pagination),
                                 "No pagination state found. Please request your tasks or orders again.",
                                 calls \cup {"pagination_state.delete"}, {})}))

-----------------------------------------------------------------------------
(* The classifier's answer: gemini.ts.  analyzeMessage and findMatchingTask catch
   their own errors; what they return is the model's choice. *)

NoParameters ==
    [status |-> "", orderId |-> "", taskId |-> "", title |-> "", productName |-> "",
     quantity |-> 0, fulfillmentDate |-> "", isBulkUpdate |-> FALSE, statusFilter |-> ""]

Analysis(intent, entityType, parameters) ==
    [intent |-> intent, entityType |-> entityType, parameters |-> parameters]

\* the answers of analyzeMessage the model draws from
Analyses ==
    {Analysis("unknown", "", NoParameters),
     Analysis("get", "task", NoParameters),
     Analysis("get", "order", NoParameters),
     Analysis("get", "order", [NoParameters EXCEPT !.status = "pending"]),
     Analysis("create", "task", [NoParameters EXCEPT !.title = "call the tailor"]),
     Analysis("create", "order", [NoParameters EXCEPT !.productName = "saree", !.quantity = 2]),
     Analysis("create", "order", [NoParameters EXCEPT !.productName = "saree", !.quantity = 2,
                                                      !.fulfillmentDate = "tomorrow 5pm"]),
     Analysis("create", "order", [NoParameters EXCEPT !.productName = "Saree", !.quantity = 2,
                                                      !.fulfillmentDate = "sometime"]),
     Analysis("create", "order", [NoParameters EXCEPT !.productName = "SAREE", !.quantity = 2,
                                                      !.fulfillmentDate = "tomorrow 5pm"]),
     Analysis("update", "task", [NoParameters EXCEPT !.status = "completed"]),
     Analysis("update", "order", [NoParameters EXCEPT !.status = "completed"]),
     Analysis("update", "order", [NoParameters EXCEPT !.status = "completed", !.orderId = "ORD-1"]),
     Analysis("update", "order", [NoParameters EXCEPT !.status = "completed", !.orderId = "1"]),
     Analysis("update", "", NoParameters)}

analyzeMessage(body) == Analyses

\* JavaScript's undefined and null among the values of a parsed field
Undefined == "<undefined>"
Null == "<null>"

\* what the model may answer: the request fails, or it returns a text.  {json}
\* stands for the text of a JSON value, which JSON.parse either rejects or reads
\* as an object with or without each of the three fields, valid or not.
Responses ==
    LET plain == [fails |-> FALSE, text |-> "", parses |-> FALSE, intent |-> Undefined,
                  entityType |-> Undefined, parameters |-> Undefined]
    IN {[plain EXCEPT !.fails = TRUE]}
       \cup {[plain EXCEPT !.text = t] :
               t \in {"I am not sure what you mean.", "{ \"intent\": \"get\"",
                      "Here you are: {json} Anything else?", "{json}"}}
       \cup {[plain EXCEPT !.text = t, !.parses = TRUE, !.intent = i, !.entityType = e,
                           !.parameters = p] :
               t \in {"Here you are: {json} Anything else?", "{json}"},
               i \in {Undefined, Null, "", "create", "get", "update", "unknown", "delete", "Get"},
               e \in {Undefined, Null, "", "task", "reminder", "order", "product", "invoice"},
               p \in {Undefined, Null, "{}", "{\"status\":\"completed\"}", "later"}}

\* text.match(/\{[\s\S]*\}/): from the first { to the last } behind it; "" is null
jsonMatch(text) ==
    LET opens == {i \in 1..Len(text) : CharAt(text, i) = "{"}
        first == CHOOSE i \in opens : \A j \in opens : i <= j
        closes == {i \in (first + 1)..Len(text) : CharAt(text, i) = "}"}
        final == CHOOSE i \in closes : \A j \in closes : j <= i
    IN IF opens = {} THEN "" ELSE IF closes = {} THEN "" ELSE SubSeq(text, first, final)

\* analyzeMessage from the model's response on: the catch, the text without JSON,
\* and the validation of the parsed object, which touches intent and entityType
MessageAnalysis(response) ==
    LET unknown == [intent |-> "unknown", entityType |-> Null, parameters |-> "{}"]
        falsy(v) == v \in {Undefined, Null, ""}
    IN IF response.fails THEN unknown
       ELSE IF jsonMatch(response.text) = "" THEN unknown
       ELSE IF ~response.parses THEN unknown
       ELSE [intent |-> IF falsy(response.intent)
                           \/ response.intent \notin {"create", "get", "update", "unknown"}
                        THEN "unknown" ELSE response.intent,
             entityType |-> IF ~falsy(response.entityType)
                               /\ response.entityType \notin {"task", "reminder", "order", "product"}
                            THEN Null ELSE response.entityType,
             parameters |-> response.parameters]

\* findMatchingTask: no match, or the first candidate, with or without the need to
\* confirm; a best match that is none of the user's tasks is a model error
findMatchingTask(body, allTasks) ==
    {[bestMatch |-> 0, needsConfirmation |-> FALSE, allMatches |-> 0]}
    \cup {[bestMatch |-> id, needsConfirmation |-> c, allMatches |-> n] :
            id \in {allTasks[1].id, 0 - 1} \ {0}, c \in BOOLEAN, n \in {1}}

-----------------------------------------------------------------------------
(* get-handler.ts *)

FirstPage(status) == [status |-> status, offset |-> 0, limit |-> PageSize]

ValidStatuses == {"pending", "completed", "processing", "cancelled"}

\* an earlier cursor is removed only on the way to a new one: a list that fits
\* on one page leaves it in place
StoreFirstPageKeepingCursor(w, userNumber, entityType, ids, total, filters, t, sorry, reply, calls) ==
    LET del == "pagination_state.delete"
        ins == "pagination_state.insert"
        ups == "user_message_context.upsert"
        wDel == DeletePaginationOf(w, userNumber, entityType)
        wIns == InsertPagination(wDel, userNumber, entityType, total, filters, t)
        save(wx, cx) ==
            Call(ups, {Outcome(wx, sorry, cx \cup {ups}, {ups})},
                 {[Outcome(IF entityType = "task"
                           THEN SaveTaskContext(wx, userNumber, ids, MappingsOf(ids, 0))
                           ELSE SaveOrderContext(wx, userNumber, ids, MappingsOf(ids, 0)),
                           reply, cx \cup {ups}, {})
                   EXCEPT !.list = [entity_type |-> entityType, ids |-> ids, offset |-> 0]]})
    IN Call(del, {Outcome(w, sorry, calls \cup {del}, {del})},
          IF total > Len(ids)
          THEN Call(ins, {Outcome(wDel, sorry, calls \cup {del, ins}, {ins})},
                    IF PaginationConflict(wDel, userNumber, entityType)
                    THEN {Outcome(wDel, sorry, calls \cup {del, ins}, {})}
                    ELSE save(wIns, calls \cup {del, ins}))
          ELSE save(w, calls))

\* the cursor and the context written with the first page of a list
StoreFirstPage(w, userNumber, entityType, ids, total, filters, t, sorry, reply, calls) ==
    LET del == "pagination_state.delete"
        ins == "pagination_state.insert"
        ups == "user_message_context.upsert"
        wDel == DeletePaginationOf(w, userNumber, entityType)
        wIns == InsertPagination(wDel, userNumber, entityType, total, filters, t)
        save(wx, cx) ==
            Call(ups, {Outcome(wx, sorry, cx \cup {ups}, {ups})},
                 {[Outcome(IF entityType = "task"
                           THEN SaveTaskContext(wx, userNumber, ids, MappingsOf(ids, 0))
                           ELSE SaveOrderContext(wx, userNumber, ids, MappingsOf(ids, 0)),
                           reply, cx \cup {ups}, {})
                   EXCEPT !.list = [entity_type |-> entityType, ids |-> ids, offset |-> 0]]})
    IN Call(del, {Outcome(w, sorry, calls \cup {del}, {del})},
          IF total > Len(ids)
          THEN Call(ins, {Outcome(wDel, sorry, calls \cup {del, ins}, {ins})},
                    IF PaginationConflict(wDel, userNumber, entityType)
                    THEN {Outcome(wDel, sorry, calls \cup {del, ins}, {})}
                    ELSE save(wIns, calls \cup {del, ins}))
          ELSE save(wDel, calls \cup {del}))

handleGetTasks(w, userNumber, analysis, t) ==
    LET sorry == "I'm sorry, I couldn't retrieve your tasks. Please try again."
        filters == FirstPage("")
        result == getTasks(w, userNumber, filters)
    IN Call("getTasks", {Outcome(w, sorry, {"getTasks"}, {"getTasks"})},
            StoreFirstPage(w, userNumber, "task", TaskIds(result.tasks), result.total,
                           filters, t, sorry, "formatTaskResponse", {"getTasks"}))

handleGetOrders(w, userNumber, analysis, body, t) ==
    LET sorry == "I'm sorry, I couldn't retrieve your orders. Please try again."
        orderId == analysis.parameters.orderId
        allOrdersForNumber == getOrders(w, userNumber, [status |-> "", offset |-> 0, limit |-> DuplicateLimit])
        orderNumber == OrderNumberOf[body, Len(allOrdersForNumber.orders)]
        status == ToLowerCase(analysis.parameters.status)
        filters == FirstPage(IF status \in ValidStatuses THEN status ELSE "")
        result == getOrders(w, userNumber, filters)
    IN IF orderId # ""
       THEN {Outcome(w, IF \E o \in w.orders : o.user_number = userNumber /\ o.order_id = orderId
                        THEN "formatOrderDetailsResponse"
                        ELSE "I couldn't find order. Please check the order ID and try again.",
                     {"getOrderByOrderId"}, {})}
       ELSE Call("getOrders", {Outcome(w, sorry, {"getOrders"}, {"getOrders"})},
              IF orderNumber # 0
              THEN Call("user_message_context.select",
                        {Outcome(w, sorry, {"getOrders", "user_message_context.select"},
                                 {"user_message_context.select"})},
                        {Outcome(w, "formatOrderDetailsResponse",
                                 {"getOrders", "user_message_context.select"}, {})})
              ELSE StoreFirstPage(w, userNumber, "order", OrderIds(result.orders), result.total,
                                  filters, t, sorry, "formatOrderResponse", {"getOrders"}))

handleGet(w, userNumber, analysis, body, t) ==
    IF analysis.entityType \in {"task", "reminder"} THEN handleGetTasks(w, userNumber, analysis, t)
    ELSE IF analysis.entityType \in {"order", "product"}
    THEN handleGetOrders(w, userNumber, analysis, body, t)
    ELSE {Outcome(w, "I can show you your tasks or orders. What would you like to see?", {}, {})}

-----------------------------------------------------------------------------
(* Table pending_confirmations *)

NoUpdates ==
    [action |-> "", status |-> "", title |-> "", productName |-> "", quantity |-> 0,
     fulfillmentDate |-> ""]

\* the table without its unique constraint
NoConfirmationConflict(w, userNumber) == FALSE

\* UNIQUE(user_number)
ConfirmationConflict(w, userNumber) ==
    \E r \in w.conf : r.user_number = userNumber

\* INSERT INTO pending_confirmations (user_number, task_id, updates,
\* original_message): expires_at takes the column default, one hour from now
InsertTaskConfirmation(w, userNumber, taskId, updates, body, t) ==
    [w EXCEPT !.conf = @ \cup
        {[user_number |-> userNumber, task_id |-> taskId, order_id |-> "",
          updates |-> updates, original_message |-> body,
          expires_at |-> t + ConfirmationTTL]}]

\* INSERT ... (user_number, order_id, updates, original_message, expires_at) ...
\* ON CONFLICT (user_number) DO UPDATE SET order_id, updates, original_message,
\* expires_at
UpsertOrderConfirmation(w, userNumber, orderId, updates, body, t) ==
    LET old == {r \in w.conf : r.user_number = userNumber}
        fresh == [user_number |-> userNumber, task_id |-> 0, order_id |-> orderId,
                  updates |-> updates, original_message |-> body,
                  expires_at |-> t + DuplicateTTL]
    IN [w EXCEPT !.conf =
         IF old = {} THEN @ \cup {fresh}
         ELSE (@ \ old) \cup {[r EXCEPT !.order_id = orderId, !.updates = updates,
                                        !.original_message = body,
                                        !.expires_at = t + DuplicateTTL] : r \in old}]

\* the record is read without the test of expires_at
SelectConfirmationIgnoringExpiry(w, userNumber, t) ==
    LET live == {r \in w.conf : r.user_number = userNumber}
    IN IF live = {} THEN {} ELSE {CHOOSE r \in live : TRUE}

\* SELECT * FROM pending_confirmations WHERE user_number = $1 AND expires_at >
\* CURRENT_TIMESTAMP ORDER BY created_at DESC LIMIT 1: a set of 0 or 1 rows (the
\* table holds one row per user)
SelectConfirmation(w, userNumber, t) ==
    LET live == LiveRows(w.conf, userNumber, t)
    IN IF live = {} THEN {} ELSE {CHOOSE r \in live : TRUE}

\* DELETE FROM pending_confirmations WHERE id = $1
DeleteConfirmation(w, row) == [w EXCEPT !.conf = @ \ {row}]

-----------------------------------------------------------------------------
(* create-handler.ts *)

NewTaskRow(w, userNumber, title) ==
    [id |-> NextSerial(w.tasks), user_number |-> userNumber, title |-> title,
     status |-> "pending", due_date |-> 0]

createTask(w, userNumber, title) ==
    [w EXCEPT !.tasks = @ \cup {NewTaskRow(w, userNumber, title)}]

Abs(x) == IF x < 0 THEN 0 - x ELSE x

\* the filter of similarOrders
IsSimilarOrder(order, productName, quantity, parsedFulfillmentDate) ==
    /\ ToLowerCase(order.product_name) = ToLowerCase(productName)
    /\ order.quantity = quantity
    /\ order.fulfillment_date # 0
    /\ Abs(order.fulfillment_date - parsedFulfillmentDate) < DuplicateTolerance

\* the pending orders the duplicate gate compares with, in the order of getOrders
SimilarOrders(w, userNumber, productName, quantity, parsedFulfillmentDate) ==
    LET existingOrders == getOrders(w, userNumber,
                              [status |-> "pending", offset |-> 0, limit |-> DuplicateLimit])
    IN SelectSeq(existingOrders.orders,
                 LAMBDA o : IsSimilarOrder(o, productName, quantity, parsedFulfillmentDate))

CreateOrderOutcomes(w, userNumber, productName, quantity, fulfillmentDate, t, calls) ==
    LET sorry == "I'm sorry, I couldn't create that order. Please try again."
    IN Call("createOrder", {Outcome(w, sorry, calls \cup {"createOrder"}, {"createOrder"})},
            IF Cardinality(w.orders) >= MaxOrders THEN {}
            ELSE {Outcome(createOrder(w, userNumber, productName, quantity, fulfillmentDate, t),
                          "formatCreateOrderResponse", calls \cup {"createOrder"}, {})})

\* the order is not created when the question cannot be stored
handleCreateOrderFailingClosed(w, userNumber, analysis, body, t) ==
    LET sorry == "I'm sorry, I couldn't create that order. Please try again."
        productName == IF analysis.parameters.productName # ""
                       THEN analysis.parameters.productName ELSE "Unknown Product"
        quantity == IF analysis.parameters.quantity # 0 THEN analysis.parameters.quantity ELSE 1
        fulfillmentDate == analysis.parameters.fulfillmentDate
        parsedFulfillmentDate == IF fulfillmentDate # "" THEN ParseDateTime(fulfillmentDate, t) ELSE 0
        similarOrders == SimilarOrders(w, userNumber, productName, quantity, parsedFulfillmentDate)
        ups == "pending_confirmations.upsert"
        create(calls) == CreateOrderOutcomes(w, userNumber, productName, quantity,
                                             fulfillmentDate, t, calls)
    IN IF fulfillmentDate # "" /\ parsedFulfillmentDate # 0
       THEN Call("getOrders", {Outcome(w, sorry, {"getOrders"}, {"getOrders"})},
              IF Len(similarOrders) > 0
              THEN Call(ups,
                     {Outcome(w, sorry, {"getOrders", ups}, {ups})},
                     {Outcome(UpsertOrderConfirmation(w, userNumber, similarOrders[1].order_id,
                                 [NoUpdates EXCEPT !.productName = productName,
                                                   !.quantity = quantity,
                                                   !.fulfillmentDate = fulfillmentDate,
                                                   !.action = "create_duplicate"],
                                 body, t),
                              "I found a similar pending order. Reply new or update.",
                              {"getOrders", ups}, {})})
              ELSE create({"getOrders"}))
       ELSE create({})

handleCreateOrder(w, userNumber, analysis, body, t) ==
    LET sorry == "I'm sorry, I couldn't create that order. Please try again."
        productName == IF analysis.parameters.productName # ""
                       THEN analysis.parameters.productName ELSE "Unknown Product"
        quantity == IF analysis.parameters.quantity # 0 THEN analysis.parameters.quantity ELSE 1
        fulfillmentDate == analysis.parameters.fulfillmentDate
        parsedFulfillmentDate == IF fulfillmentDate # "" THEN ParseDateTime(fulfillmentDate, t) ELSE 0
        similarOrders == SimilarOrders(w, userNumber, productName, quantity, parsedFulfillmentDate)
        ups == "pending_confirmations.upsert"
        create(calls) == CreateOrderOutcomes(w, userNumber, productName, quantity,
                                             fulfillmentDate, t, calls)
    IN IF fulfillmentDate # "" /\ parsedFulfillmentDate # 0
       THEN Call("getOrders", {Outcome(w, sorry, {"getOrders"}, {"getOrders"})},
              IF Len(similarOrders) > 0
              THEN Call(ups,
                     {[o EXCEPT !.failed = @ \cup {ups}] : o \in create({"getOrders", ups})},
                     {Outcome(UpsertOrderConfirmation(w, userNumber, similarOrders[1].order_id,
                                 [NoUpdates EXCEPT !.productName = productName,
                                                   !.quantity = quantity,
                                                   !.fulfillmentDate = fulfillmentDate,
                                                   !.action = "create_duplicate"],
                                 body, t),
                              "I found a similar pending order. Reply new or update.",
                              {"getOrders", ups}, {})})
              ELSE create({"getOrders"}))
       ELSE create({})

handleCreate(w, userNumber, analysis, body, t) ==
    IF analysis.entityType \in {"task", "reminder"}
    THEN Call("createTask",
              {Outcome(w, "I'm sorry, I couldn't create that task. Please try again.",
                       {"createTask"}, {"createTask"})},
              IF Cardinality(w.tasks) >= MaxTasks THEN {}
              ELSE {Outcome(createTask(w, userNumber,
                               IF analysis.parameters.title # "" THEN analysis.parameters.title
                               ELSE "Untitled Task"),
                            "formatCreateTaskResponse", {"createTask"}, {})})
    ELSE IF analysis.entityType \in {"order", "product"}
    THEN handleCreateOrder(w, userNumber, analysis, body, t)
    ELSE {Outcome(w, "I can help you create tasks or orders. What would you like to create?", {}, {})}

-----------------------------------------------------------------------------
(* update-handler.ts *)

TaskUpdatesOf(parameters) ==
    [NoUpdates EXCEPT !.status = parameters.status, !.title = parameters.title]

OrderUpdatesOf(parameters) ==
    [NoUpdates EXCEPT !.status = parameters.status, !.productName = parameters.productName,
                      !.quantity = parameters.quantity]

\* bulkUpdateTasks / bulkUpdateOrders: UPDATE ... WHERE user_number = $n AND status = $m
bulkUpdateTasks(w, userNumber, updates, statusFilter) ==
    [w EXCEPT !.tasks = {IF t.user_number = userNumber /\ (statusFilter # "" => t.status = statusFilter)
                         THEN ApplyTaskUpdates(t, updates) ELSE t : t \in @}]

bulkUpdateOrders(w, userNumber, updates, statusFilter) ==
    [w EXCEPT !.orders = {IF o.user_number = userNumber /\ (statusFilter # "" => o.status = statusFilter)
                          THEN ApplyOrderUpdates(o, updates) ELSE o : o \in @}]

handleUpdateTask(w, userNumber, analysis, body, t) ==
    LET sorry == "I'm sorry, I couldn't update that task. Please try again."
        allTasks == getTasks(w, userNumber, [status |-> "", offset |-> 0, limit |-> MatchLimit]).tasks
        updates == TaskUpdatesOf(analysis.parameters)
        ins == "pending_confirmations.insert"
        c1 == {"getTasks", "findMatchingTask"}
        matched(matchResult) ==
            IF matchResult.bestMatch = 0
            THEN {Outcome(w, "I couldn't find a matching task. Please be more specific (e.g., 'update task 1' or 'change my appointment on 15th').", c1, {})}
            ELSE IF ~\E task \in Range(allTasks) : task.id = matchResult.bestMatch
            THEN {Outcome(w, "I couldn't find the task. Please try again.", c1, {})}
            ELSE IF matchResult.needsConfirmation
            THEN Call(ins, {Outcome(w, sorry, c1 \cup {ins}, {ins})},
                      IF ConfirmationConflict(w, userNumber)
                      THEN {Outcome(w, sorry, c1 \cup {ins}, {})}
                      ELSE {Outcome(InsertTaskConfirmation(w, userNumber, matchResult.bestMatch,
                                                           updates, body, t),
                                    "Do you want to update this task? Reply yes or no.",
                                    c1 \cup {ins}, {})})
            ELSE Call("updateTask", {Outcome(w, sorry, c1 \cup {"updateTask"}, {"updateTask"})},
                      {[Outcome(updateTask(w, matchResult.bestMatch, updates),
                                "formatUpdateTaskResponse", c1 \cup {"updateTask"}, {})
                        EXCEPT !.updated = {TaskKey(matchResult.bestMatch)}]})
    IN Call("getTasks", {Outcome(w, sorry, {"getTasks"}, {"getTasks"})},
            IF Len(allTasks) = 0
            THEN {Outcome(w, "You don't have any tasks to update.", {"getTasks"}, {})}
            ELSE UNION {matched(m) : m \in findMatchingTask(body, allTasks)})

handleUpdate(w, userNumber, analysis, body, t) ==
    LET isBulkUpdate == analysis.parameters.isBulkUpdate
        orderId == analysis.parameters.orderId
        taskUpdates == TaskUpdatesOf(analysis.parameters)
        orderUpdates == OrderUpdatesOf(analysis.parameters)
        sorryOrder == "I'm sorry, I couldn't update that order. Please check the order ID and try again."
    IN IF analysis.entityType \in {"task", "reminder"}
       THEN IF isBulkUpdate
            THEN IF taskUpdates = NoUpdates
                 THEN {Outcome(w, "What would you like to update about these tasks? (e.g., 'mark all tasks as completed')", {}, {})}
                 ELSE Call("bulkUpdateTasks",
                        {Outcome(w, "I'm sorry, I couldn't update those tasks. Please try again.",
                                 {"bulkUpdateTasks"}, {"bulkUpdateTasks"})},
                        {Outcome(bulkUpdateTasks(w, userNumber, taskUpdates, analysis.parameters.statusFilter),
                                 "formatBulkUpdateResponse", {"bulkUpdateTasks"}, {})})
            ELSE handleUpdateTask(w, userNumber, analysis, body, t)
       ELSE IF analysis.entityType \in {"order", "product"}
       THEN IF isBulkUpdate
            THEN IF orderUpdates = NoUpdates
                 THEN {Outcome(w, "What would you like to update about these orders? (e.g., 'mark all orders as done')", {}, {})}
                 ELSE Call("bulkUpdateOrders",
                        {Outcome(w, "I'm sorry, I couldn't update those orders. Please try again.",
                                 {"bulkUpdateOrders"}, {"bulkUpdateOrders"})},
                        {Outcome(bulkUpdateOrders(w, userNumber, orderUpdates, analysis.parameters.statusFilter),
                                 "formatBulkUpdateResponse", {"bulkUpdateOrders"}, {})})
            ELSE IF orderId = ""
            THEN {Outcome(w, "Please specify which order to update (e.g., 'update order #123').", {}, {})}
            ELSE Call("updateOrder", {Outcome(w, sorryOrder, {"updateOrder"}, {"updateOrder"})},
                   IF OrderExists(w, orderId)
                   THEN {[Outcome(updateOrder(w, orderId, orderUpdates), "formatUpdateOrderResponse",
                                  {"updateOrder"}, {}) EXCEPT !.updated = {OrderKey(orderId)}]}
                   ELSE {Outcome(w, sorryOrder, {"updateOrder"}, {})})
       ELSE {Outcome(w, "I can help you update tasks or orders. What would you like to update?", {}, {})}

-----------------------------------------------------------------------------
(* confirmation-handler.ts *)

isNew(messageBody) == messageBody = "new" \/ StartsWith(messageBody, "new")
isUpdate(messageBody) == messageBody = "update" \/ StartsWith(messageBody, "update")
isYes(messageBody) ==
    messageBody = "yes" \/ messageBody = "y" \/ StartsWith(messageBody, "yes") \/ messageBody = "confirm"
isNo(messageBody) ==
    messageBody = "no" \/ messageBody = "n" \/ StartsWith(messageBody, "no") \/ messageBody = "cancel"

\* the stage returns null instead of asking again
RepromptFallsThrough(w, question, calls) == {Outcome(w, "", calls, {})}

\* the answer is neither of the expected ones: ask again, the record stays
Reprompt(w, question, calls) == {Outcome(w, question, calls, {})}

\* await query('DELETE FROM pending_confirmations WHERE id = $1') followed by
\* return: outside a try block, so a failing delete leaves the handler
DeleteAndReturn(w, pending, reply, calls, failed) ==
    LET del == "pending_confirmations.delete"
    IN Call(del, {Thrown(w, calls \cup {del}, failed \cup {del})},
            {Outcome(DeleteConfirmation(w, pending), reply, calls \cup {del}, failed)})

\* try { w2 = operation; delete; return reply } catch { delete; return sorry }
TryThenDelete(w, w2, pending, label, succeeds, updated, reply, sorry, calls0) ==
    LET del == "pending_confirmations.delete"
        calls == calls0 \cup {label}
    IN Call(label, DeleteAndReturn(w, pending, sorry, calls, {label}),
            IF succeeds
            THEN {[o EXCEPT !.updated = updated] :
                  o \in Call(del, DeleteAndReturn(w2, pending, sorry, calls \cup {del}, {del}),
                            {Outcome(DeleteConfirmation(w2, pending), reply, calls \cup {del}, {})})}
            ELSE DeleteAndReturn(w, pending, sorry, calls, {}))

\* update is taken for new: a second order is created
handleDuplicateConfirmationAlwaysNew(w, userNumber, messageBody, pending, t, calls) ==
    LET updates == pending.updates
    IN IF isNew(messageBody) \/ isUpdate(messageBody)
       THEN IF Cardinality(w.orders) >= MaxOrders THEN {}
            ELSE TryThenDelete(w, createOrder(w, userNumber, updates.productName, updates.quantity,
                                              updates.fulfillmentDate, t),
                               pending, "createOrder", TRUE, {}, "formatCreateOrderResponse",
                               "I'm sorry, I couldn't create that order. Please try again.", calls)
       ELSE IF isUpdate(messageBody)
       THEN TryThenDelete(w, updateOrder(w, pending.order_id,
                                 [NoUpdates EXCEPT !.productName = updates.productName,
                                                   !.quantity = updates.quantity]),
                          pending, "updateOrder", OrderExists(w, pending.order_id),
                          {OrderKey(pending.order_id)}, "formatUpdateOrderResponse",
                          "I'm sorry, I couldn't update that order. Please try again.", calls)
       ELSE IF isNo(messageBody)
       THEN DeleteAndReturn(w, pending, "Order creation cancelled. How else can I help you?", calls, {})
       ELSE Reprompt(w, "Please reply 'new' for a new order or 'update' to modify the existing one.",
                     calls)

handleDuplicateConfirmation(w, userNumber, messageBody, pending, t, calls) ==
    LET updates == pending.updates
    IN IF isNew(messageBody)
       THEN IF Cardinality(w.orders) >= MaxOrders THEN {}
            ELSE TryThenDelete(w, createOrder(w, userNumber, updates.productName, updates.quantity,
                                              updates.fulfillmentDate, t),
                               pending, "createOrder", TRUE, {}, "formatCreateOrderResponse",
                               "I'm sorry, I couldn't create that order. Please try again.", calls)
       ELSE IF isUpdate(messageBody)
       THEN TryThenDelete(w, updateOrder(w, pending.order_id,
                                 [NoUpdates EXCEPT !.productName = updates.productName,
                                                   !.quantity = updates.quantity]),
                          pending, "updateOrder", OrderExists(w, pending.order_id),
                          {OrderKey(pending.order_id)}, "formatUpdateOrderResponse",
                          "I'm sorry, I couldn't update that order. Please try again.", calls)
       ELSE IF isNo(messageBody)
       THEN DeleteAndReturn(w, pending, "Order creation cancelled. How else can I help you?", calls, {})
       ELSE Reprompt(w, "Please reply 'new' for a new order or 'update' to modify the existing one.",
                     calls)

\* every answer but yes cancels the update
handleTaskConfirmationCancelling(w, userNumber, messageBody, pending, t, calls) ==
    IF isYes(messageBody)
    THEN TryThenDelete(w, updateTask(w, pending.task_id, pending.updates), pending, "updateTask",
                       TaskExists(w, pending.task_id), {TaskKey(pending.task_id)},
                       "formatUpdateTaskResponse",
                       "I'm sorry, I couldn't update that task. Please try again.", calls)
    ELSE DeleteAndReturn(w, pending, "Update cancelled. How else can I help you?", calls, {})

handleTaskConfirmation(w, userNumber, messageBody, pending, t, calls) ==
    IF isYes(messageBody)
    THEN TryThenDelete(w, updateTask(w, pending.task_id, pending.updates), pending, "updateTask",
                       TaskExists(w, pending.task_id), {TaskKey(pending.task_id)},
                       "formatUpdateTaskResponse",
                       "I'm sorry, I couldn't update that task. Please try again.", calls)
    ELSE IF isNo(messageBody)
    THEN DeleteAndReturn(w, pending, "Update cancelled. How else can I help you?", calls, {})
    ELSE Call("tasks.select", {Thrown(w, calls \cup {"tasks.select"}, {"tasks.select"})},
              IF TaskExists(w, pending.task_id)
              THEN Reprompt(w, "Please confirm: Do you want to update task? Reply yes or no.",
                            calls \cup {"tasks.select"})
              ELSE DeleteAndReturn(w, pending, "The pending update has expired. Please try again.",
                                   calls \cup {"tasks.select"}, {}))

handleConfirmation(w, userNumber, messageBody, t) ==
    LET sel == "pending_confirmations.select"
        rows == SelectConfirmation(w, userNumber, t)
        branch(pending) ==
            IF pending.updates.action = "create_duplicate" /\ pending.order_id # ""
            THEN handleDuplicateConfirmation(w, userNumber, messageBody, pending, t, {sel})
            ELSE IF pending.task_id # 0
            THEN handleTaskConfirmation(w, userNumber, messageBody, pending, t, {sel})
            ELSE {Outcome(w, "", {sel}, {})}
    IN Call(sel, {Thrown(w, {sel}, {sel})},
            IF rows = {} THEN {Outcome(w, "", {sel}, {})}
            ELSE UNION {branch(pending) : pending \in rows})

-----------------------------------------------------------------------------
(* load-context.ts and reply-handler.ts *)

NoContext ==
    [entityType |-> "", orderIds |-> <<>>, taskIds |-> <<>>,
     orderMappings |-> EmptyMappings, taskMappings |-> EmptyMappings]

\* loadMessageContext: a set of 0 or 1 contexts per outcome of its reads.  The
\* user's row of user_message_context wins whatever referredMessageSid names;
\* without one, the message found by getMessageBySid carries no context (nothing
\* writes messages.context, and the test of !context.orderMappings is false for
\* {}), and whether the messages table holds the sid is the caller's choice.
loadMessageContext(w, userNumber, referredMessageSid) ==
    LET rows == {c \in w.ctx : c.user_number = userNumber}
    IN IF referredMessageSid = 0 THEN {{}}
       ELSE Call("user_message_context.select", {{}},
              IF rows # {}
              THEN {{[entityType |-> c.entity_type, orderIds |-> c.order_ids,
                      taskIds |-> c.task_ids, orderMappings |-> c.order_mappings,
                      taskMappings |-> c.task_mappings] : c \in rows}}
              ELSE {{NoContext}, {}})

\* context.orderMappings[key]: "" (0 for tasks) stands for undefined
Lookup(mappings, key, undefined) ==
    IF key \in DOMAIN mappings THEN mappings[key] ELSE undefined

Contains(q, x) == \E i \in DOMAIN q : q[i] = x

\* one round of the loop over orderNumbers
RECURSIVE ResolveNumbers(_, _, _, _)
ResolveNumbers(orderNumbers, context, targetOrderIds, k) ==
    IF k > Len(orderNumbers) THEN targetOrderIds
    ELSE LET orderNumber == orderNumbers[k]
             orderId == Lookup(context.orderMappings, ToString(orderNumber), "")
             next == IF orderId # "" /\ ~Contains(targetOrderIds, orderId)
                     THEN Append(targetOrderIds, orderId)
                     ELSE IF orderNumber > 0 /\ orderNumber <= Len(context.orderIds)
                             /\ ~Contains(targetOrderIds, context.orderIds[orderNumber])
                     THEN Append(targetOrderIds, context.orderIds[orderNumber])
                     ELSE targetOrderIds
         IN ResolveNumbers(orderNumbers, context, next, k + 1)

\* the single-number resolution shared by orders and tasks
ResolveNumber(number, mappings, ids, undefined) ==
    IF number = 0 THEN <<>>
    ELSE IF Lookup(mappings, ToString(number), undefined) # undefined
    THEN <<Lookup(mappings, ToString(number), undefined)>>
    ELSE IF number > 0 /\ number <= Len(ids) THEN <<ids[number]>>
    ELSE <<>>

\* the id the classifier's parameter names in the mappings, if any
ResolveParameter(key, mappings, undefined) ==
    IF key # "" /\ Lookup(mappings, key, undefined) # undefined
    THEN <<Lookup(mappings, key, undefined)>>
    ELSE <<>>

\* if (targetIds.length === 0): the next way of finding the targets is tried
OrElse(targetIds, next) == IF targetIds # <<>> THEN targetIds ELSE next

TargetOrderIds(body, analysis, context) ==
    OrElse(OrElse(OrElse(
        ResolveParameter(analysis.parameters.orderId, context.orderMappings, ""),
        ResolveNumbers(OrderNumbersOf[body, Len(context.orderIds)],
                       context, <<>>, 1)),
        ResolveNumber(OrderNumberOf[body, Len(context.orderIds)],
                      context.orderMappings, context.orderIds, "")),
        context.orderIds)

TargetTaskIds(body, analysis, context) ==
    OrElse(OrElse(
        ResolveParameter(analysis.parameters.taskId, context.taskMappings, 0),
        ResolveNumber(OrderNumberOf[body, Len(context.taskIds)],
                      context.taskMappings, context.taskIds, 0)),
        context.taskIds)

\* Promise.all over the updates: every update is started; the ones that throw
\* (the row is missing, or the database fails) reject the whole
UpdateAll(w, entityType, targets, updates, label, one, sorry, calls) ==
    LET many == "I've updated " \o ToString(Len(targets)) \o " " \o entityType
                \o (IF Len(targets) > 1 THEN "s" ELSE "") \o " to "
                \o (IF updates.status # "" THEN updates.status ELSE "the new status") \o "."
        exists(x) == IF entityType = "order" THEN OrderExists(w, x) ELSE TaskExists(w, x)
        apply(wx, x) == IF entityType = "order" THEN updateOrder(wx, x, updates)
                        ELSE updateTask(wx, x, updates)
        key(x) == IF entityType = "order" THEN OrderKey(x) ELSE TaskKey(x)
        missing == {x \in Range(targets) : ~exists(x)}
        failing == IF label \in FailPoints
                   THEN {F \in SUBSET Range(targets) : missing \subseteq F}
                   ELSE {missing}
        after(F) == LET RECURSIVE run(_, _)
                        run(wx, S) == IF S = {} THEN wx
                                      ELSE LET x == CHOOSE y \in S : TRUE
                                           IN run(apply(wx, x), S \ {x})
                    IN run(w, Range(targets) \ F)
    IN {[Outcome(after(F),
                 IF F # {} THEN sorry ELSE IF Len(targets) = 1 THEN one ELSE many,
                 calls \cup {label}, IF F \ missing # {} THEN {label} ELSE {})
         EXCEPT !.updated = {key(x) : x \in Range(targets) \ F}] : F \in failing}

handleUpdateWithContext(w, userNumber, body, analysis, context, calls) ==
    LET updateOrders(targetOrderIds) ==
            IF analysis.parameters.status # "" /\ Len(targetOrderIds) > 0
            THEN UpdateAll(w, "order", targetOrderIds,
                           [NoUpdates EXCEPT !.status = analysis.parameters.status],
                           "updateOrder", "formatUpdateOrderResponse",
                           "I'm sorry, I couldn't update the order(s). Please try again.", calls)
            ELSE {Outcome(w, "What would you like to update about this order? (e.g., 'mark as done', 'update status to processing')",
                          calls, {})}
        updateTasks(targetTaskIds, updates) ==
            IF updates # NoUpdates /\ Len(targetTaskIds) > 0
            THEN UpdateAll(w, "task", targetTaskIds, updates,
                           "updateTask", "formatUpdateTaskResponse",
                           "I'm sorry, I couldn't update the task(s). Please try again.", calls)
            ELSE {Outcome(w, "What would you like to update about this task? (e.g., 'mark as completed', 'change title to...')",
                          calls, {})}
    IN IF context.entityType = "order" /\ Len(context.orderIds) > 0
       THEN updateOrders(TargetOrderIds(body, analysis, context))
       ELSE IF context.entityType = "task" /\ Len(context.taskIds) > 0
       THEN updateTasks(TargetTaskIds(body, analysis, context), TaskUpdatesOf(analysis.parameters))
       ELSE {Outcome(w, "", calls, {})}

handleGetWithContext(w, userNumber, body, analysis, context, calls) ==
    LET byParameter == IF analysis.parameters.orderId # ""
                       THEN Lookup(context.orderMappings, analysis.parameters.orderId, "")
                       ELSE ""
        target(byNumber) == IF byParameter # "" THEN byParameter
                            ELSE IF byNumber # <<>> THEN byNumber[1] ELSE ""
        details(targetOrderId) ==
            IF targetOrderId # ""
            THEN {Outcome(w, IF \E o \in w.orders : o.user_number = userNumber
                                                    /\ o.order_id = targetOrderId
                             THEN "formatOrderDetailsResponse"
                             ELSE "I couldn't find order. Please check the order ID and try again.",
                          calls \cup {"getOrderByOrderId"}, {})}
            ELSE {Outcome(w, "", calls, {})}
    IN IF context.entityType = "order" /\ Len(context.orderIds) > 0
       THEN details(target(ResolveNumber(
                OrderNumberOf[body, Len(context.orderIds)],
                context.orderMappings, context.orderIds, "")))
       ELSE {Outcome(w, "", calls, {})}

\* the reply stage without its keyword fallback
EffectiveAnalysisAsClassified(analysis, lowerBody, context) == analysis

\* statusKeywords, in the order of Object.entries
StatusKeywords ==
    << <<"done", "completed">>, <<"complete", "completed">>, <<"completed", "completed">>,
       <<"processing", "processing">>, <<"pending", "pending">>, <<"cancelled", "cancelled">>,
       <<"cancel", "cancelled">>, <<"finish", "completed">>, <<"finished", "completed">> >>

isDetailsRequest(lowerBody) ==
    \/ Includes(lowerBody, "details")
    \/ Includes(lowerBody, "detail")
    \/ Includes(lowerBody, "information")
    \/ Includes(lowerBody, "info")
    \/ Includes(lowerBody, "tell me about")
    \/ Includes(lowerBody, "show") /\ (Includes(lowerBody, "order") \/ Includes(lowerBody, "task"))

EffectiveAnalysis(analysis, lowerBody, context) ==
    LET hits == {i \in DOMAIN StatusKeywords : Includes(lowerBody, StatusKeywords[i][1])}
        first == CHOOSE i \in hits : \A j \in hits : i <= j
    IN IF analysis.intent = "unknown" /\ context.entityType # ""
       THEN IF hits # {}
            THEN Analysis("update", context.entityType,
                          [NoParameters EXCEPT !.status = StatusKeywords[first][2]])
            ELSE IF isDetailsRequest(lowerBody)
            THEN Analysis("get", context.entityType, analysis.parameters)
            ELSE analysis
       ELSE analysis

handleReply(w, userNumber, body, referredMessageSid, context) ==
    LET lowerBody == ToLowerCase(body)
        calls(analysis) == {"handleReply", "analyzeMessage"}
                           \cup IF analysis.intent = "unknown" THEN {"reply:unknown"} ELSE {}
    IN UNION {LET effectiveAnalysis == EffectiveAnalysis(analysis, lowerBody, context)
              IN IF effectiveAnalysis.intent = "update" /\ context.entityType # ""
                 THEN handleUpdateWithContext(w, userNumber, body, effectiveAnalysis, context,
                                              calls(analysis))
                 ELSE IF (analysis.intent = "get" \/ isDetailsRequest(lowerBody))
                         /\ context.entityType # ""
                 THEN handleGetWithContext(w, userNumber, body,
                          IF effectiveAnalysis.intent = "get" THEN analysis ELSE effectiveAnalysis,
                          context, calls(analysis))
                 ELSE {Outcome(w, "", calls(analysis) \cup {"reply:none"}, {})} :
              analysis \in analyzeMessage(body)}

-----------------------------------------------------------------------------
(* route.ts: POST *)

Trouble == "I'm having trouble understanding. Could you please rephrase that?"

UnknownIntentMessage == "getUnknownIntentMessage"

\* what the stages before have called is carried into the outcome of the next
After(prev, outs) ==
    {[o EXCEPT !.calls = @ \cup prev.calls, !.failed = @ \cup prev.failed] : o \in outs}

\* a stage that answers ends the request; a stage that throws ends it in POST's
\* catch; a stage that returns null hands over to the next
Settled(o) == o.threw \/ o.reply # ""

\* the stages without POST's catch
EndsUncaught(name, o) == [o EXCEPT !.by = name]

Ends(name, o) ==
    IF o.threw THEN [o EXCEPT !.reply = Trouble, !.by = name] ELSE [o EXCEPT !.by = name]

\* the classification is kept with the calls: its intent, its entity type, and
\* the order id and the fulfillment date among its parameters
Classify(w, userNumber, body, t) ==
    UNION {{[o EXCEPT !.by = "classification"] :
              o \in After(Outcome(w, "", {"classification", "analyzeMessage", analysis.intent,
                                           "entityType:" \o analysis.entityType,
                                           "orderId:" \o analysis.parameters.orderId,
                                           "fulfillmentDate:"
                                               \o analysis.parameters.fulfillmentDate}, {}),
                  IF analysis.intent = "create" THEN handleCreate(w, userNumber, analysis, body, t)
                  ELSE IF analysis.intent = "get" THEN handleGet(w, userNumber, analysis, body, t)
                  ELSE IF analysis.intent = "update"
                  THEN handleUpdate(w, userNumber, analysis, body, t)
                  ELSE {Outcome(w, UnknownIntentMessage, {}, {})})} :
           analysis \in analyzeMessage(body)}

ReplyStage(w, userNumber, body, referredMessageSid) ==
    IF referredMessageSid = 0 THEN {Outcome(w, "", {}, {})}
    ELSE UNION {IF found = {} THEN {Outcome(w, "", {"loadMessageContext"}, {})}
                ELSE UNION {After(Outcome(w, "", {"loadMessageContext"}, {}),
                                  handleReply(w, userNumber, body, referredMessageSid, context)) :
                            context \in found} :
                found \in loadMessageContext(w, userNumber, referredMessageSid)}

\* the override without its return: the later stages see the message as well
ForwardedWithoutReturn(w, userNumber, body, isForwarded, t) ==
    IF ~isForwarded THEN {Outcome(w, "", {}, {})}
    ELSE UNION {IF analysis.intent \in {"create", "unknown"}
                THEN After(Outcome(w, "", {"forwarded"}, {}),
                           {[o EXCEPT !.reply = ""] :
                              o \in handleCreate(w, userNumber,
                                       Analysis("create", "order", analysis.parameters), body, t)})
                ELSE {Outcome(w, "", {}, {})} :
                analysis \in analyzeMessage(body)}

Forwarded(w, userNumber, body, isForwarded, t) ==
    IF ~isForwarded THEN {Outcome(w, "", {}, {})}
    ELSE UNION {IF analysis.intent \in {"create", "unknown"}
                THEN After(Outcome(w, "", {"forwarded"}, {}),
                           handleCreate(w, userNumber,
                               Analysis("create", "order", analysis.parameters), body, t))
                ELSE {Outcome(w, "", {}, {})} :
                analysis \in analyzeMessage(body)}

\* the router with the confirmation stage tried before the pagination stage
POSTConfirmationFirst(w, from, body, referredMessageSid, isForwarded, t) ==
    LET userNumber == from
        messageBody == ToLowerCase(Trim(body))
    IN IF Trim(body) = "" THEN {Outcome(w, "Hi", {}, {})}
       ELSE
       UNION {IF Settled(o1) THEN {Ends("forwarded", o1)} ELSE After(o1,
       UNION {IF Settled(o2) THEN {Ends("reply", o2)} ELSE After(o2,
       UNION {IF Settled(o3) THEN {Ends("confirmation", o3)} ELSE After(o3,
       UNION {IF Settled(o4) THEN {Ends("pagination", o4)} ELSE After(o4,
              Classify(o4.w, userNumber, body, t)) :
           o4 \in After(Outcome(o3.w, "", {"handlePagination"}, {}),
                        handlePagination(o3.w, userNumber, messageBody, t))}) :
           o3 \in After(Outcome(o2.w, "", {"handleConfirmation"}, {}),
                        handleConfirmation(o2.w, userNumber, messageBody, t))}) :
           o2 \in ReplyStage(o1.w, userNumber, body, referredMessageSid)}) :
           o1 \in Forwarded(w, userNumber, body, isForwarded, t)}

\* the stages in the order of the code: each is handed the world the one before
\* it left when it returned null
POST(w, from, body, referredMessageSid, isForwarded, t) ==
    LET userNumber == from
        messageBody == ToLowerCase(Trim(body))
    IN IF Trim(body) = "" THEN {Outcome(w, "Hi", {}, {})}
       ELSE
       UNION {IF Settled(o1) THEN {Ends("forwarded", o1)} ELSE After(o1,
       UNION {IF Settled(o2) THEN {Ends("reply", o2)} ELSE After(o2,
       UNION {IF Settled(o3) THEN {Ends("pagination", o3)} ELSE After(o3,
       UNION {IF Settled(o4) THEN {Ends("confirmation", o4)} ELSE After(o4,
              Classify(o4.w, userNumber, body, t)) :
           o4 \in After(Outcome(o3.w, "", {"handleConfirmation"}, {}),
                        handleConfirmation(o3.w, userNumber, messageBody, t))}) :
           o3 \in After(Outcome(o2.w, "", {"handlePagination"}, {}),
                        handlePagination(o2.w, userNumber, messageBody, t))}) :
           o2 \in ReplyStage(o1.w, userNumber, body, referredMessageSid)}) :
           o1 \in Forwarded(w, userNumber, body, isForwarded, t)}

-----------------------------------------------------------------------------
(* order-reminder-service.ts *)

\* getAllPendingOrdersByUser: pending orders whose fulfillment date is today
PendingOrdersDueToday(w, userNumber, t) ==
    OrderByDate({[d |-> o.fulfillment_date, r |-> o] :
                 o \in {x \in w.orders : /\ x.user_number = userNumber
                                         /\ x.status = "pending"
                                         /\ x.fulfillment_date # 0
                                         /\ x.fulfillment_date \div DayLen = t \div DayLen}})

\* one round of the loop of sendPendingOrderReminders: the user's reminder is
\* sent and the context for replies stored; stored is false when the upsert threw
RemindUser(w, userNumber, t, stored) ==
    LET orderIds == OrderIds(PendingOrdersDueToday(w, userNumber, t))
    IN IF stored THEN SaveOrderContext(w, userNumber, orderIds, MappingsOf(orderIds, 0)) ELSE w

-----------------------------------------------------------------------------
(* The state machine *)

World ==
    [tasks |-> tasks, orders |-> orders, conf |-> pending_confirmations,
     cur |-> pagination_state, ctx |-> user_message_context]

SeedTask(i) ==
    [id |-> i, user_number |-> "u1", title |-> "stitch blouse", status |-> "pending",
     due_date |-> 0]

\* an order placed (SeedOrders + 1 - i) minutes before the model's time 0, with
\* the default fulfillment date
SeedOrder(i) ==
    [id |-> i, user_number |-> "u1", order_id |-> OrderIdOf(i), product_name |-> "shirt",
     quantity |-> 1, status |-> "pending",
     fulfillment_date |-> DefaultFulfillmentDelay - (SeedOrders + 1 - i)]

\* the requests a user sends: a new instruction, which may be a forwarded message;
\* "next"; an answer, once the user has been asked a question; a reply to one of
\* the lists the user has been sent, naming an item of it
Request(body, referredMessageSid, isForwarded) ==
    [body |-> body, referredMessageSid |-> referredMessageSid, isForwarded |-> isForwarded]

Requests(from) ==
    {Request("hi", 0, f) : f \in BOOLEAN}
    \cup {Request(b, 0, FALSE) : b \in Triggers}
    \cup {Request("next", 0, TRUE)}
    \cup {Request(b, 0, FALSE) :
            b \in IF \E r \in pending_confirmations : r.user_number = from THEN Answers ELSE {}}
    \cup {Request("yes", 0, TRUE) : r \in {x \in pending_confirmations : x.user_number = from}}
    \cup {Request(b, k, FALSE) : b \in References \cup {"next"}, k \in 1..Len(sent[from])}
    \cup {Request("2 done", k, TRUE) : k \in 1..Len(sent[from])}

NoLast ==
    [kind |-> "none", from |-> "", body |-> "", referred |-> 0, isForwarded |-> FALSE,
     reply |-> "", calls |-> {}, failed |-> {}, threw |-> FALSE, by |-> "",
     list |-> NoList, updated |-> {}, at |-> 0,
     cursor |-> {}, confirmation |-> {}, context |-> {}, referredList |-> NoList,
     before |-> [tasks |-> {}, orders |-> {}, conf |-> {}, cur |-> {}, ctx |-> {}]]

Init ==
    /\ tasks = {SeedTask(i) : i \in 1..SeedTasks}
    /\ orders = {SeedOrder(i) : i \in 1..SeedOrders}
    /\ pending_confirmations = {}
    /\ pagination_state = {}
    /\ user_message_context = {}
    /\ now = 0
    /\ sent = [u \in Users |-> <<>>]
    /\ received = 0
    /\ faults = 0
    /\ last = NoLast

\* the same database with one task fewer: the list of u1's tasks ends exactly with
\* its second page
InitFullPages ==
    /\ tasks = {SeedTask(i) : i \in 1..(2 * PageSize)}
    /\ orders = {SeedOrder(i) : i \in 1..SeedOrders}
    /\ pending_confirmations = {}
    /\ pagination_state = {}
    /\ user_message_context = {}
    /\ now = 0
    /\ sent = [u \in Users |-> <<>>]
    /\ received = 0
    /\ faults = 0
    /\ last = NoLast

\* the list messages the user has been sent, the latest first
Remember(history, list) ==
    IF list = NoList THEN history
    ELSE SubSeq(<<list>> \o history, 1, Min(MaxSent, Len(history) + 1))

Install(w) ==
    /\ tasks' = w.tasks
    /\ orders' = w.orders
    /\ pending_confirmations' = w.conf
    /\ pagination_state' = w.cur
    /\ user_message_context' = w.ctx

\* a webhook request: POST
Receive ==
    /\ last = NoLast
    /\ received < MaxMessages
    /\ \E from \in Users : \E request \in Requests(from) :
       LET body == request.body
           referredMessageSid == request.referredMessageSid
           isForwarded == request.isForwarded
       IN
       \E o \in POST(World, from, body, referredMessageSid, isForwarded, now) :
          /\ faults' = faults + IF o.failed # {} THEN 1 ELSE 0
          /\ Install(o.w)
          /\ sent' = [sent EXCEPT ![from] = Remember(@, o.list)]
          /\ received' = received + 1
          /\ last' = [kind |-> "message", from |-> from, body |-> body,
                      referred |-> referredMessageSid, isForwarded |-> isForwarded,
                      reply |-> o.reply, calls |-> o.calls, failed |-> o.failed,
                      threw |-> o.threw, by |-> o.by, list |-> o.list,
                      updated |-> o.updated, at |-> now,
                      cursor |-> LiveRows(pagination_state, from, now),
                      confirmation |-> LiveRows(pending_confirmations, from, now),
                      context |-> {c \in user_message_context : c.user_number = from},
                      referredList |-> IF referredMessageSid = 0 THEN NoList
                                       ELSE sent[from][referredMessageSid],
                      before |-> World]
          /\ UNCHANGED now

\* the daily job: sendPendingOrderReminders.  reached: the users whose reminder
\* is sent; stored: those whose context for replies is stored as well
Reminder ==
    /\ last = NoLast
    /\ received < MaxMessages
    /\ LET due == {u \in Users : Len(PendingOrdersDueToday(World, u, now)) > 0}
           listOf(u) == [entity_type |-> "order",
                         ids |-> OrderIds(PendingOrdersDueToday(World, u, now)),
                         offset |-> 0]
           RECURSIVE run(_, _)
           run(w, S) == IF S = {} THEN w
                        ELSE LET u == CHOOSE x \in S : TRUE
                             IN run(RemindUser(w, u, now, TRUE), S \ {u})
       IN /\ due # {}
          /\ \E reached \in SUBSET due : \E stored \in SUBSET reached :
               /\ reached # {}
               /\ stored # due => faults < MaxFaults
               /\ faults' = faults + IF stored # due THEN 1 ELSE 0
               /\ Install(run(World, stored))
               /\ sent' = [u \in Users |-> IF u \in reached THEN Remember(sent[u], listOf(u))
                                           ELSE sent[u]]
               /\ received' = received + 1
               /\ last' = [NoLast EXCEPT !.kind = "reminder", !.at = now]
    /\ UNCHANGED now

\* the response reaches the sender and the request is over
Deliver ==
    /\ last # NoLast
    /\ last' = NoLast
    /\ UNCHANGED <<tasks, orders, pending_confirmations, pagination_state,
                   user_message_context, now, sent, received, faults>>

\* time passes, up to the next moment a cursor or a confirmation expires
Tick ==
    /\ last = NoLast
    /\ \E r \in pending_confirmations \cup pagination_state :
          /\ r.expires_at > now
          /\ r.expires_at <= MaxTime
          /\ now' = r.expires_at
    /\ UNCHANGED <<tasks, orders, pending_confirmations, pagination_state,
                   user_message_context, sent, received, faults, last>>

Next == Receive \/ Deliver \/ Reminder \/ Tick

Spec == Init /\ [][Next]_vars

SpecFullPages == InitFullPages /\ [][Next]_vars

\* another client of the database deletes the task a confirmation waits for (the
\* handler provides for it when it asks again).  The row leaves the user's tasks
\* and no task has its id; the table keeps its count, as the serial numbers of
\* deleted rows are not given out again.
TaskDeleted ==
    /\ last = NoLast
    /\ \E r \in pending_confirmations :
          /\ r.task_id > 0
          /\ TaskExists(World, r.task_id)
          /\ tasks' = {IF t.id = r.task_id THEN [t EXCEPT !.id = 0 - t.id, !.user_number = ""]
                       ELSE t : t \in tasks}
    /\ UNCHANGED <<orders, pending_confirmations, pagination_state, user_message_context,
                   now, sent, received, faults, last>>

SpecTaskDeleted == Init /\ [][Next \/ TaskDeleted]_vars

\* one call of analyzeMessage, on any response of the model
Analyze ==
    /\ last = NoLast
    /\ \E response \in Responses :
          last' = [kind |-> "analysis", response |-> response,
                   analysis |-> MessageAnalysis(response)]
    /\ UNCHANGED <<tasks, orders, pending_confirmations, pagination_state,
                   user_message_context, now, sent, received, faults>>

SpecClassifier == Init /\ [][Analyze]_vars

\* the texts the resolver is given: the forms its comments name ("3rd order",
\* "first order", "order 2", "2", "third", "1 2 3", "1,2,3", "1 and 2"), and texts
\* with numbers out of range, repeated, out of order, inside words and in capitals
Texts ==
    {"3rd", "order 5", "99", "1,2,3", "second and fourth", "3rd order", "first order",
     "order 2", "2", "third", "1 2 3", "1 and 2", "3 and third", "5 1 3 1", "Tenth, then FIRST",
     "order 12 then 3", "item 0", "0", "", "mark done", "11th", "the 2nd item and number 7",
     "ORD-6 and twenty1", "6th 4th 2nd", "seventh 8 ninth 10", "item 9 and 2 orders",
     "number 8 or 12th or 4"}

\* the longest list the resolver is asked about
MaxPosition == 11

\* one call of each of the two parsers, on any text and any list length
Resolve ==
    /\ last = NoLast
    /\ \E text \in Texts, maxPosition \in 0..MaxPosition :
          last' = [kind |-> "resolve", text |-> text, maxPosition |-> maxPosition,
                   single |-> parseOrderNumberFromMessage(text, maxPosition),
                   multiple |-> parseMultipleOrderNumbersFromMessage(text, maxPosition)]
    /\ UNCHANGED <<tasks, orders, pending_confirmations, pagination_state,
                   user_message_context, now, sent, received, faults>>

SpecResolver == Init /\ [][Resolve]_vars

\* Two requests of one user handled at the same time.  The statements of
\* handleGet (lists of tasks, lists of orders) and of handlePagination ("next")
\* are taken one at a time, in any interleaving; each handler keeps what it has
\* read in its own variables (last.proc).  The serial id of a cursor row is kept
\* in created_at, which the serial orders as well.
Handlers == {"task", "order", "next"}

\* the two requests arrive: the user has no cursor, or the cursor a list of
\* tasks or of orders has left
StartRace ==
    /\ last = NoLast
    /\ received = 0
    /\ pagination_state = {}
    /\ \E from \in {"u1"}, h1 \in Handlers, h2 \in Handlers, prior \in {"", "task", "order"} :
          LET total == IF prior = "task" THEN getTasks(World, from, FirstPage("")).total
                       ELSE getOrders(World, from, FirstPage("")).total
              proc(h) == [handler |-> h, pc |-> IF h = "next" THEN "select" ELSE "fetch",
                          type |-> IF h = "next" THEN "" ELSE h, ids |-> <<>>, total |-> 0,
                          row |-> {}, newOffset |-> 0, reply |-> "", cur |-> {}, ctx |-> {}]
          IN /\ pagination_state' =
                   IF prior = "" THEN {}
                   ELSE InsertPagination(World, from, prior, total, FirstPage(""), now).cur
             /\ last' = [kind |-> "race", from |-> from, serial |-> 2,
                         proc |-> <<proc(h1), proc(h2)>>]
    /\ UNCHANGED <<tasks, orders, pending_confirmations, user_message_context,
                   now, sent, received, faults>>

\* the next statement of one of the two handlers
RaceStep ==
    /\ last.kind = "race"
    /\ \E p \in DOMAIN last.proc :
          LET me == last.proc[p]
              from == last.from
              mine == {r \in pagination_state : r.user_number = from /\ r.entity_type = me.type}
              isTask == me.type = "task"
              filters == IF me.handler = "next"
                         THEN [(CHOOSE r \in me.row : TRUE).filters
                                  EXCEPT !.offset = me.newOffset, !.limit = PageSize]
                         ELSE FirstPage("")
              ids == IF isTask THEN TaskIds(getTasks(World, from, filters).tasks)
                     ELSE OrderIds(getOrders(World, from, filters).orders)
              total == IF isTask THEN getTasks(World, from, filters).total
                       ELSE getOrders(World, from, filters).total
              found == SelectPagination(World, from, now)
              inserted == CHOOSE r \in InsertPagination(World, from, me.type, me.total,
                                                        FirstPage(""), now).cur : r \notin pagination_state
              saved == IF isTask
                       THEN SaveTaskContext(World, from, me.ids, MappingsOf(me.ids, me.newOffset)).ctx
                       ELSE SaveOrderContext(World, from, me.ids, MappingsOf(me.ids, me.newOffset)).ctx
              page == IF isTask THEN "formatTaskResponse" ELSE "formatOrderResponse"
              sorry == IF isTask THEN "I'm sorry, I couldn't retrieve your tasks. Please try again."
                       ELSE "I'm sorry, I couldn't retrieve your orders. Please try again."
              advanced == {IF r \in mine /\ r.created_at = (CHOOSE q \in me.row : TRUE).created_at
                           THEN [r EXCEPT !.offset_count = me.newOffset,
                                          !.expires_at = now + CursorTTL]
                           ELSE r : r \in pagination_state}
              removed == {r \in pagination_state :
                            ~(r \in mine /\ r.created_at = (CHOOSE q \in me.row : TRUE).created_at)}
              goes(next, cur, ctx, serial) ==
                  /\ last' = [last EXCEPT !.proc[p] = next, !.serial = serial]
                  /\ pagination_state' = cur
                  /\ user_message_context' = ctx
              reads(next) == goes(next, pagination_state, user_message_context, last.serial)
              writesCursor(next, cur) ==
                  goes([next EXCEPT !.cur = {r \in cur : r.user_number = from
                                                         /\ r.entity_type = me.type}],
                       cur, user_message_context, last.serial)
          IN CASE me.pc = "fetch" /\ me.handler # "next" ->
                     reads([me EXCEPT !.ids = ids, !.total = total, !.pc = "delete"])
               [] me.pc = "delete" ->
                     writesCursor([me EXCEPT !.pc = IF me.total > Len(me.ids) THEN "insert"
                                                    ELSE "upsert"],
                                  pagination_state \ mine)
               [] me.pc = "insert" ->
                     IF mine # {}
                     THEN reads([me EXCEPT !.reply = sorry, !.pc = "done"])
                     ELSE goes([me EXCEPT !.pc = "upsert",
                                          !.cur = {[inserted EXCEPT !.created_at = last.serial]}],
                               pagination_state \cup {[inserted EXCEPT !.created_at = last.serial]},
                               user_message_context, last.serial + 1)
               [] me.pc = "upsert" ->
                     goes([me EXCEPT !.ctx = {c \in saved : c.user_number = from},
                                     !.reply = IF me.handler = "next" THEN "" ELSE page,
                                     !.pc = IF me.handler = "next" THEN "settle" ELSE "done"],
                          pagination_state, saved, last.serial)
               [] me.pc = "select" ->
                     IF found = {}
                     THEN reads([me EXCEPT !.reply = NoMoreItems, !.pc = "done"])
                     ELSE reads([me EXCEPT !.row = found,
                                           !.type = (CHOOSE r \in found : TRUE).entity_type,
                                           !.newOffset = (CHOOSE r \in found : TRUE).offset_count
                                                         + PageSize,
                                           !.pc = "fetch"])
               [] me.pc = "fetch" /\ me.handler = "next" ->
                     reads([me EXCEPT !.ids = ids, !.total = total,
                                      !.pc = IF Len(ids) > 0 THEN "upsert" ELSE "settle"])
               [] me.pc = "settle" ->
                     IF Len(me.ids) > 0 /\ me.total > me.newOffset + Len(me.ids)
                     THEN writesCursor([me EXCEPT !.reply = page, !.pc = "done"], advanced)
                     ELSE writesCursor([me EXCEPT !.reply = IF Len(me.ids) > 0 THEN page
                                                            ELSE IF isTask THEN "No more tasks to show."
                                                            ELSE "No more orders to show.",
                                                  !.pc = "done"], removed)
               [] OTHER -> FALSE
    /\ UNCHANGED <<tasks, orders, pending_confirmations, now, sent, received, faults>>

SpecRace == Init /\ [][StartRace \/ RaceStep]_vars

\* Two messages of one user about an order, handled at the same time: each is
\* the answer "new" (handleConfirmation) or a request to create two sarees
\* (handleCreate), and the handlers interleave at their awaits.
OrderHandlers == {"new", "create"}

RacedProduct == "saree"

RacedQuantity == 2

\* the pendingUpdates of the decision the user has been asked for
RacedUpdates ==
    [NoUpdates EXCEPT !.productName = RacedProduct, !.quantity = RacedQuantity,
                      !.fulfillmentDate = "tomorrow 5pm", !.action = "create_duplicate"]

\* the two requests arrive: the user has no such order yet (none), has one
\* (order), or has one and has been asked whether a second is new (asked)
StartOrderRace ==
    /\ last = NoLast
    /\ received = 0
    /\ pending_confirmations = {}
    /\ \E from \in {"u1"}, h1 \in OrderHandlers, h2 \in OrderHandlers,
          prior \in {"none", "order", "asked"}, date \in {"tomorrow 5pm", ""} :
          LET first == createOrder(World, from, RacedProduct, RacedQuantity, "tomorrow 5pm", now)
              row == NewOrderRow(World, from, RacedProduct, RacedQuantity, "tomorrow 5pm", now)
              proc(h) == [handler |-> h, pc |-> IF h = "new" THEN "select"
                                                ELSE IF date = "" THEN "create" ELSE "fetch",
                          pending |-> {}, similar |-> <<>>, reply |-> "", created |-> {}]
          IN /\ orders' = IF prior = "none" THEN orders ELSE first.orders
             /\ pending_confirmations' =
                   IF prior = "asked"
                   THEN UpsertOrderConfirmation(first, from, row.order_id, RacedUpdates,
                                                "2 sarees tomorrow 5pm", now).conf
                   ELSE {}
             /\ last' = [kind |-> "orders", from |-> from, date |-> date, prior |-> prior,
                         before |-> orders', proc |-> <<proc(h1), proc(h2)>>]
    /\ UNCHANGED <<tasks, pagination_state, user_message_context, now, sent, received, faults>>

\* the next statement of one of the two handlers, up to its next await
OrderRaceStep ==
    /\ last.kind = "orders"
    /\ \E p \in DOMAIN last.proc :
          LET me == last.proc[p]
              from == last.from
              rows == SelectConfirmation(World, from, now)
              pending == CHOOSE r \in me.pending : TRUE
              parsed == ParseDateTime(last.date, now)
              goes(next, ords, conf) ==
                  /\ last' = [last EXCEPT !.proc[p] = next]
                  /\ orders' = ords
                  /\ pending_confirmations' = conf
              inserts(productName, quantity, fulfillmentDate, next) ==
                  goes([me EXCEPT !.pc = next,
                                  !.reply = IF next = "done" THEN "formatCreateOrderResponse" ELSE "",
                                  !.created = {NewOrderRow(World, from, productName, quantity,
                                                           fulfillmentDate, now).order_id}],
                       createOrder(World, from, productName, quantity, fulfillmentDate, now).orders,
                       pending_confirmations)
          IN CASE me.handler = "new" /\ me.pc = "select" ->
                     IF rows = {}
                     THEN goes([me EXCEPT !.pc = "done"], orders, pending_confirmations)
                     ELSE goes([me EXCEPT !.pending = rows, !.pc = "create"],
                               orders, pending_confirmations)
               [] me.handler = "new" /\ me.pc = "create" ->
                     inserts(pending.updates.productName, pending.updates.quantity,
                             pending.updates.fulfillmentDate, "delete")
               [] me.handler = "new" /\ me.pc = "delete" ->
                     goes([me EXCEPT !.reply = "formatCreateOrderResponse", !.pc = "done"], orders,
                          {r \in pending_confirmations : r.user_number # from})
               [] me.handler = "create" /\ me.pc = "fetch" ->
                     LET similarOrders == SimilarOrders(World, from, RacedProduct,
                                                        RacedQuantity, parsed)
                     IN goes([me EXCEPT !.similar = similarOrders,
                                        !.pc = IF Len(similarOrders) > 0 THEN "ask" ELSE "create"],
                             orders, pending_confirmations)
               [] me.handler = "create" /\ me.pc = "ask" ->
                     goes([me EXCEPT !.reply = "I found a similar pending order. Reply new or update.",
                                     !.pc = "done"], orders,
                          UpsertOrderConfirmation(World, from, me.similar[1].order_id,
                              [RacedUpdates EXCEPT !.fulfillmentDate = last.date],
                              "2 sarees tomorrow 5pm", now).conf)
               [] me.handler = "create" /\ me.pc = "create" ->
                     inserts(RacedProduct, RacedQuantity, last.date, "done")
               [] OTHER -> FALSE
    /\ UNCHANGED <<tasks, pagination_state, user_message_context, now, sent, received, faults>>

SpecOrderRace == Init /\ [][StartOrderRace \/ OrderRaceStep]_vars

\* The task matcher by itself: findMatchingTask over what the model answers.
\* Confidences are in hundredths.
ConfirmBelow == 80      \* bestMatch.confidence < 0.8
AmbiguousAbove == 60    \* m.confidence > 0.6
MaxMatches == 3         \* candidates in one answer of the model

MatchConfidences == {40, 60, 70, 80, 90}

\* the lists of candidates the model returns, in the order it returns them; the
\* i-th candidate names task i
MatchLists ==
    UNION {[1..n -> MatchConfidences] : n \in 0..MaxMatches}

\* the model's answer: the call throws; the text holds no JSON object; the
\* object cannot be parsed; it has no matches array; or it is as asked for, with
\* needsConfirmation true, false or missing
MatcherResponses ==
    {[kind |-> k, confidences |-> <<>>, needsConfirmation |-> "undefined"] :
        k \in {"throws", "text", "unparsable", "no matches array"}}
    \cup {[kind |-> "json", confidences |-> c, needsConfirmation |-> n] :
            c \in MatchLists, n \in {"true", "false", "undefined"}}

\* bestMatch: null
NoTaskMatch == [taskId |-> 0, confidence |-> 0, ambiguity |-> 0]

\* { bestMatch: null, allMatches: [], needsConfirmation: false }
NoMatchResult == [bestMatch |-> NoTaskMatch, allMatches |-> <<>>, needsConfirmation |-> FALSE]

\* findMatchingTask for a list of tasks that is not empty
TaskMatchResult(response) ==
    IF response.kind # "json" THEN NoMatchResult
    ELSE LET matches == response.confidences
             highConfidenceMatches == {i \in DOMAIN matches : matches[i] > AmbiguousAbove}
             ambiguity == IF Cardinality(highConfidenceMatches) > 1 THEN 1 ELSE 0
             allMatches == [i \in DOMAIN matches |->
                              [taskId |-> i, confidence |-> matches[i], ambiguity |-> ambiguity]]
             bestMatch == IF Len(allMatches) > 0 THEN allMatches[1] ELSE NoTaskMatch
         IN [bestMatch |-> bestMatch,
             allMatches |-> allMatches,
             needsConfirmation |->
                 \/ response.needsConfirmation = "true"
                 \/ (bestMatch # NoTaskMatch /\ bestMatch.confidence < ConfirmBelow)
                 \/ Cardinality(highConfidenceMatches) > 1]

MatchTask ==
    /\ \E response \in MatcherResponses :
          last' = [kind |-> "match", response |-> response,
                   result |-> TaskMatchResult(response)]
    /\ UNCHANGED <<tasks, orders, pending_confirmations, pagination_state,
                   user_message_context, now, sent, received, faults>>

SpecMatcher == Init /\ [][MatchTask]_vars

\* One user pages through a list: a request for the tasks or the orders, then
\* "next" again and again, over a database that holds more than a page of each and
\* that nothing else changes; no call fails, and the requests are a minute apart,
\* MaxBrowse of them at most, so that no cursor expires.
MaxItems == 12          \* the most tasks the user has
MaxBrowse == 5          \* requests per behaviour of the user who pages

InitPaging ==
    /\ \E n \in (PageSize + 1)..MaxItems : tasks = {SeedTask(i) : i \in 1..n}
    /\ \E n \in (PageSize + 1)..MaxOrders : orders = {SeedOrder(i) : i \in 1..n}
    /\ pending_confirmations = {}
    /\ pagination_state = {}
    /\ user_message_context = {}
    /\ now = 0
    /\ sent = [u \in Users |-> <<>>]
    /\ received = 0
    /\ faults = 0
    /\ last = NoLast

\* POST for a message the classifier reads as a request for a list, or for
\* "next".  last keeps the pages shown since the list was asked for (pages), the
\* number of "next" since (nexts), the whole list as the repository orders it
\* (all), and whether the list's cursor is the user's only one (alone).
Browse ==
    /\ last.kind \in {"none", "browse"}
    /\ received < MaxBrowse
    /\ \E from \in {"u1"}, body \in {"hi", "next"} :
       \E o \in POST(World, from, body, 0, FALSE, now) :
          LET fresh == body = "hi"
              type == o.list.entity_type
              cursor == CHOOSE r \in o.w.cur : r.user_number = from /\ r.entity_type = type
              whole == [cursor.filters EXCEPT !.offset = 0, !.limit = MatchLimit]
          IN /\ o.failed = {}
             /\ fresh => /\ "get" \in o.calls
                         /\ o.calls \cap {"getTasks", "getOrders"} # {}
             /\ ~fresh => last.kind = "browse"
             /\ Install(o.w)
             /\ received' = received + 1
             /\ last' = [kind |-> "browse", from |-> from, body |-> body, reply |-> o.reply,
                         calls |-> o.calls, by |-> o.by, list |-> o.list,
                         type |-> IF fresh THEN type ELSE last.type,
                         all |-> IF ~fresh THEN last.all
                                 ELSE IF \A r \in o.w.cur : r.user_number = from
                                                             => r.entity_type # type
                                 THEN o.list.ids
                                 ELSE IF type = "task"
                                 THEN TaskIds(getTasks(World, from, whole).tasks)
                                 ELSE OrderIds(getOrders(World, from, whole).orders),
                         alone |-> IF fresh
                                   THEN \A r \in o.w.cur : r.user_number = from => r.entity_type = type
                                   ELSE last.alone,
                         nexts |-> IF fresh THEN 0 ELSE last.nexts + 1,
                         pages |-> IF fresh THEN <<o.list>>
                                   ELSE IF o.list # NoList THEN Append(last.pages, o.list)
                                   ELSE last.pages]
    /\ now' = now + 1
    /\ UNCHANGED <<sent, faults>>

SpecPaging == InitPaging /\ [][Browse]_vars

\* The same user with more than a page of tasks and any number of orders, a list
\* of orders that fits on one page included.
InitLists ==
    /\ \E n \in (PageSize + 1)..(2 * PageSize + 1) : tasks = {SeedTask(i) : i \in 1..n}
    /\ \E n \in 1..MaxOrders : orders = {SeedOrder(i) : i \in 1..n}
    /\ pending_confirmations = {}
    /\ pagination_state = {}
    /\ user_message_context = {}
    /\ now = 0
    /\ sent = [u \in Users |-> <<>>]
    /\ received = 0
    /\ faults = 0
    /\ last = NoLast

SpecLists == InitLists /\ [][Browse]_vars

-----------------------------------------------------------------------------
(* Properties.  last describes the request that has just been answered: what was
   sent, which stage answered (by), what was called, and the tables as they were
   when the request arrived (before, cursor, confirmation). *)

RowsOf(rows, userNumber) == {r \in rows : r.user_number = userNumber}

Answered == last.kind = "message"

\* the request reached the pagination stage with a pagination trigger
NextReachedPagination ==
    /\ Answered
    /\ "handlePagination" \in last.calls
    /\ isNext(ToLowerCase(Trim(last.body)))

\* the cursor the pagination stage reads: the youngest live one
CursorRead == {r \in last.cursor : \A q \in last.cursor : q.created_at <= r.created_at}

CursorAfter(row) ==
    {r \in pagination_state : r.user_number = row.user_number
                              /\ r.entity_type = row.entity_type}

CursorAdvanced(row) ==
    CursorAfter(row) = {[row EXCEPT !.offset_count = @ + PageSize,
                                    !.expires_at = last.at + CursorTTL]}

CursorDeleted(row) == CursorAfter(row) = {}

BothLive ==
    /\ Answered
    /\ last.body = "next"
    /\ ~last.isForwarded
    /\ last.referred = 0
    /\ last.cursor # {}
    /\ last.confirmation # {}

\* C1: with a live confirmation and a live cursor, "next" (not forwarded, no
\* reply reference) is answered by the pagination stage and the confirmation
\* stage is not run; the confirmation record is unchanged and still live; and,
\* when no call fails, the page at the next offset is shown and the cursor is
\* advanced by a page with a fresh expiry, or deleted.
StageOrderIsStrict ==
    BothLive =>
        /\ last.by = "pagination"
        /\ "handleConfirmation" \notin last.calls
        /\ RowsOf(pending_confirmations, last.from) = RowsOf(last.before.conf, last.from)
        /\ LiveRows(pending_confirmations, last.from, now) = last.confirmation
        /\ last.failed = {} =>
              \A row \in CursorRead :
                 \/ /\ last.list.entity_type = row.entity_type
                    /\ last.list.offset = row.offset_count + PageSize
                    /\ CursorAdvanced(row) \/ CursorDeleted(row)
                 \/ /\ last.list.entity_type = ""
                    /\ CursorDeleted(row)

NextWithConfirmationPending ==
    /\ BothLive
    /\ last.by = "pagination"
    /\ last.failed = {}
    /\ \E row \in CursorRead : CursorAdvanced(row) /\ last.list.entity_type = "task"

\* C2: a pagination trigger that reaches the pagination stage is answered there
\* in every case; neither the confirmation stage nor fresh classification runs.
NextNeverFallsThrough ==
    NextReachedPagination =>
        /\ last.by = "pagination"
        /\ last.reply # ""
        /\ "handleConfirmation" \notin last.calls
        /\ "classification" \notin last.calls

NextAnsweredOnRepositoryFailure ==
    /\ NextReachedPagination
    /\ last.body = " Next page "
    /\ last.cursor # {}
    /\ last.failed \cap {"getTasks", "getOrders"} # {}
    /\ last.by = "pagination"

\* C3: without a live cursor (none stored, or only expired ones), "next" is
\* answered with the static message, nothing is fetched from the repository and
\* no cursor, context or confirmation record changes.
NoCursorIsTerminal ==
    (NextReachedPagination /\ last.cursor = {} /\ last.failed = {}) =>
        /\ last.reply = NoMoreItems
        /\ last.calls \cap {"getTasks", "getOrders"} = {}
        /\ pagination_state = last.before.cur
        /\ user_message_context = last.before.ctx
        /\ pending_confirmations = last.before.conf
        /\ tasks = last.before.tasks
        /\ orders = last.before.orders

NextAfterCursorExpired ==
    /\ NextReachedPagination
    /\ last.cursor = {}
    /\ RowsOf(last.before.cur, last.from) # {}
    /\ last.reply = NoMoreItems

\* C4: when the confirmation stage is reached while the user has a live
\* confirmation, the request ends in that stage whatever the body; fresh
\* classification does not run.
ConfirmationNeverFallsThrough ==
    (Answered /\ "handleConfirmation" \in last.calls /\ last.confirmation # {}) =>
        /\ last.by = "confirmation"
        /\ last.reply # ""
        /\ "classification" \notin last.calls

UnclearAnswerAskedAgain ==
    /\ Answered
    /\ last.body = "hi"
    /\ last.confirmation # {}
    /\ last.by = "confirmation"
    /\ ~last.threw
    /\ pending_confirmations = last.before.conf

\* C5: a confirmation past its expiry is treated as absent: "yes" is not
\* answered by the confirmation stage, which applies and deletes nothing, and
\* goes to fresh classification.
ExpiredConfirmationIsAbsent ==
    (/\ Answered
     /\ last.body = "yes"
     /\ "handleConfirmation" \in last.calls
     /\ last.confirmation = {}
     /\ ~last.threw) =>
        /\ last.by = "classification"
        /\ "pending_confirmations.delete" \notin last.calls

YesAfterExpiry ==
    /\ Answered
    /\ last.body = "yes"
    /\ last.confirmation = {}
    /\ \E r \in RowsOf(last.before.conf, last.from) : r.task_id # 0 /\ r.expires_at <= last.at
    /\ last.by = "classification"

\* the request was answered, and no call has failed in this behaviour
AnsweredWithoutFault == Answered /\ faults = 0

\* the kind of a stored confirmation
IsDuplicateDecision(r) == r.updates.action = "create_duplicate" /\ r.order_id # ""

IsTaskUpdateConfirmation(r) == ~IsDuplicateDecision(r) /\ r.task_id # 0

\* C6: a handler that persists a confirmation while the user already has a
\* record, live or expired, replaces it: afterwards the user's record is of the
\* new kind and carries a fresh expiry.
NewConfirmationReplacesPrior ==
    (AnsweredWithoutFault /\ RowsOf(last.before.conf, last.from) # {}) =>
        /\ "pending_confirmations.insert" \in last.calls =>
              \E r \in RowsOf(pending_confirmations, last.from) :
                  /\ IsTaskUpdateConfirmation(r)
                  /\ r.expires_at = last.at + ConfirmationTTL
        /\ "pending_confirmations.upsert" \in last.calls =>
              \E r \in RowsOf(pending_confirmations, last.from) :
                  /\ IsDuplicateDecision(r)
                  /\ r.expires_at = last.at + DuplicateTTL

\* C7: every user has at most one confirmation record, hence at most one live.
OneConfirmationPerUser ==
    \A u \in Users :
        /\ Cardinality(RowsOf(pending_confirmations, u)) <= 1
        /\ Cardinality(LiveRows(pending_confirmations, u, now)) <= 1

ConfirmationStoredOverPrior ==
    /\ AnsweredWithoutFault
    /\ RowsOf(last.before.conf, last.from) # {}
    /\ "pending_confirmations.upsert" \in last.calls
    /\ \E r \in RowsOf(pending_confirmations, last.from) :
          r.expires_at = last.at + DuplicateTTL /\ r \notin last.before.conf
    /\ Cardinality(RowsOf(pending_confirmations, last.from)) = 1

\* the rows the request inserted into table orders
InsertedOrders == {o \in orders : \A b \in last.before.orders : b.id # o.id}

\* a pending order of the same user with the same product (whatever the case),
\* quantity and, within the tolerance, fulfillment time
SimilarPending(new, old) ==
    /\ old.user_number = new.user_number
    /\ old.status = "pending"
    /\ ToLowerCase(old.product_name) = ToLowerCase(new.product_name)
    /\ old.quantity = new.quantity
    /\ Abs(old.fulfillment_date - new.fulfillment_date) < DuplicateTolerance

\* C8: a create-order request never inserts an order next to a similar pending
\* order of the same user.
DuplicateGateIsIdempotent ==
    (AnsweredWithoutFault /\ last.by \in {"classification", "forwarded"}) =>
        \A new \in InsertedOrders :
            ~\E old \in last.before.orders : SimilarPending(new, old)

\* the position map and the id list of a stored context describe the same list
MapMatchesList(mappings, ids) ==
    \A i \in 1..Len(ids) :
        /\ ToString(i) \in DOMAIN mappings
        /\ mappings[ToString(i)] = ids[i]

\* C9: in every stored context the position map of the listed entity type maps
\* position i + 1 to element i of the id list.
PositionMapInvariant ==
    faults = 0 =>
        \A c \in user_message_context :
            /\ c.entity_type = "order" => MapMatchesList(c.order_mappings, c.order_ids)
            /\ c.entity_type = "task" => MapMatchesList(c.task_mappings, c.task_ids)

KeyOf(entityType, id) == IF entityType = "task" THEN TaskKey(id) ELSE OrderKey(id)

\* C10: a reply that names position 2 of the list it refers to updates the
\* second item of that list, and nothing else.
ReplyResolvesAgainstReferredList ==
    (/\ AnsweredWithoutFault
     /\ last.by = "reply"
     /\ last.body = "2 done"
     /\ last.referred > 0
     /\ Len(last.referredList.ids) >= 2
     /\ last.updated # {}) =>
        last.updated = {KeyOf(last.referredList.entity_type, last.referredList.ids[2])}

\* the positions a reply names
NamedPositions(body) ==
    CASE body = "mark 1 and 3 as done" -> {1, 3}
      [] body = "2 done" -> {2}
      [] body = "7 done" -> {7}
      [] body = "2 cancel" -> {2}
      [] OTHER -> {}

\* the reply stage has updated rows on a reply to a list, with an order context
\* in which every position the reply names exists
ReplyUpdateOnOrders(c) ==
    /\ AnsweredWithoutFault
    /\ last.by = "reply"
    /\ last.referred > 0
    /\ last.updated # {}
    /\ c.entity_type = "order"
    /\ NamedPositions(last.body) # {}
    /\ NamedPositions(last.body) \subseteq 1..Len(c.order_ids)

\* C11: a reply-update that names the positions S of its order context updates
\* exactly the orders at S to the new status, leaves every other order as it
\* was, and reports |S| orders when |S| > 1.
ReplyUpdatesExactlyNamedOrders ==
    \A c \in last.context :
        ReplyUpdateOnOrders(c) =>
            LET S == NamedPositions(last.body)
                named == {c.order_ids[i] : i \in S}
            IN /\ last.updated = {OrderKey(id) : id \in named}
               /\ \A o \in orders : o.order_id \in named => o.status = "completed"
               /\ \A o \in orders : o.order_id \notin named => o \in last.before.orders
               /\ Cardinality(S) > 1 =>
                     last.reply = "I've updated " \o ToString(Cardinality(S))
                                  \o " orders to completed."

\* the status the keyword of a reply stands for
KeywordStatus(body) ==
    CASE body \in {"done", "2 done", "7 done", "mark 1 and 3 as done"} -> "completed"
      [] body = "2 cancel" -> "cancelled"
      [] OTHER -> ""

\* the items a stored context lists, by the names of their rows
ListedKeys(c) ==
    IF c.entity_type = "task" THEN {TaskKey(c.task_ids[i]) : i \in DOMAIN c.task_ids}
    ELSE IF c.entity_type = "order" THEN {OrderKey(c.order_ids[i]) : i \in DOMAIN c.order_ids}
    ELSE {}

ListedAt(c, i) ==
    IF c.entity_type = "task" THEN TaskKey(c.task_ids[i]) ELSE OrderKey(c.order_ids[i])

StatusOfKey(k) ==
    {t.status : t \in {x \in tasks : TaskKey(x.id) = k}}
    \cup {o.status : o \in {x \in orders : OrderKey(x.order_id) = k}}

\* a reply with a status keyword, on a task or order context, that the
\* classifier of the reply stage answered with intent unknown
KeywordReply(c) ==
    /\ AnsweredWithoutFault
    /\ ~last.isForwarded
    /\ last.referred > 0
    /\ "reply:unknown" \in last.calls
    /\ c.entity_type \in {"task", "order"}
    /\ KeywordStatus(last.body) # ""

\* the reply stage has set the listed items the reply refers to, and no other
\* row, to the keyword's status
KeywordApplied(c) ==
    /\ last.by = "reply"
    /\ last.reply # UnknownIntentMessage
    /\ "classification" \notin last.calls
    /\ last.updated # {}
    /\ last.updated \subseteq ListedKeys(c)
    /\ \A k \in last.updated : StatusOfKey(k) = {KeywordStatus(last.body)}
    /\ \A i \in NamedPositions(last.body) :
          (Cardinality(NamedPositions(last.body)) = 1 /\ i <= Cardinality(ListedKeys(c)))
              => last.updated = {ListedAt(c, i)}
    /\ \A t \in tasks : TaskKey(t.id) \notin last.updated => t \in last.before.tasks
    /\ \A o \in orders : OrderKey(o.order_id) \notin last.updated => o \in last.before.orders

\* C12 as stated: with a task or order context, a reply the classifier answers
\* with unknown and whose body holds a status keyword is an update to that
\* status, answered by the reply stage and not with the unknown-intent text.
KeywordFallbackUpdates ==
    \A c \in last.context : KeywordReply(c) => KeywordApplied(c)

\* C12: the same, for a context that lists at least one item.
KeywordFallbackUpdatesListedItems ==
    \A c \in last.context : (KeywordReply(c) /\ ListedKeys(c) # {}) => KeywordApplied(c)

BareDoneCompletesListedTasks ==
    \E c \in last.context :
        /\ KeywordReply(c)
        /\ last.body = "done"
        /\ c.entity_type = "task"
        /\ last.by = "reply"
        /\ last.updated = ListedKeys(c)
        /\ Cardinality(last.updated) = PageSize
        /\ \A k \in last.updated : StatusOfKey(k) = {"completed"}

\* a reply to a list, with a context of some entity type, that the reply stage
\* took for neither an update nor a request for details
ReplyNotUnderstood ==
    /\ AnsweredWithoutFault
    /\ ~last.isForwarded
    /\ last.referred > 0
    /\ "reply:none" \in last.calls
    /\ \E c \in last.context : c.entity_type # ""

\* C13: a reply whose effective intent is neither update nor get/details goes to
\* fresh classification; the pagination and confirmation stages do not answer it.
ReplyFallsThroughToClassification ==
    ReplyNotUnderstood => last.by = "classification"

\* a forwarded message whose classification is create or unknown
ForwardedOverride ==
    /\ Answered
    /\ last.isForwarded
    /\ "forwarded" \in last.calls

\* C14: a forwarded message classified as create or unknown goes directly to
\* order creation: the reply, pagination and confirmation stages are not run, no
\* cursor changes, no task and no existing order changes, and a confirmation
\* the user has is either left as it is or replaced by the duplicate-order
\* decision this creation asks for.
ForwardedGoesToOrderCreation ==
    ForwardedOverride =>
        /\ last.by = "forwarded"
        /\ last.calls \cap {"loadMessageContext", "handleReply", "handlePagination",
                            "handleConfirmation", "classification"} = {}
        /\ pagination_state = last.before.cur
        /\ user_message_context = last.before.ctx
        /\ tasks = last.before.tasks
        /\ last.before.orders \subseteq orders
        /\ last.updated = {}
        /\ \A r \in RowsOf(pending_confirmations, last.from) :
              r \in last.before.conf \/ (IsDuplicateDecision(r) /\ r.expires_at = last.at + DuplicateTTL)
        /\ RowsOf(last.before.conf, last.from) # {} =>
              RowsOf(pending_confirmations, last.from) # {}

ForwardedNextKeepsCursor ==
    /\ ForwardedOverride
    /\ last.body = "next"
    /\ last.cursor # {}
    /\ last.confirmation # {}
    /\ last.by = "forwarded"
    /\ InsertedOrders # {}
    /\ pagination_state = last.before.cur


\* the number of rows the filters of cursor r select now
Remaining(r) ==
    IF r.entity_type = "task" THEN getTasks(World, r.user_number, r.filters).total
    ELSE getOrders(World, r.user_number, r.filters).total

\* a get or a "next" has shown a page of a list and stored all it stores
PageShown == Answered /\ last.list # NoList

\* the cursors of the user and the entity type of the page shown
CursorOfPage ==
    {r \in pagination_state : r.user_number = last.from
                              /\ r.entity_type = last.list.entity_type}

OneCursorPerUserAndType ==
    \A r, q \in pagination_state :
        r.user_number = q.user_number /\ r.entity_type = q.entity_type => r = q

(* C15, as stated: there is at most one cursor per user and entity type, and after
   a completed get or "next" no cursor of that user and entity type remains whose
   offset + page size has reached its totalCount. *)
CursorGoneAtTotalCount ==
    /\ OneCursorPerUserAndType
    /\ PageShown => \A r \in CursorOfPage : r.offset_count + PageSize < r.total_count

(* C15, amended: there is at most one cursor per user and entity type, and a cursor
   of that user and entity type that survives a completed get or "next" stands at
   the page shown and has at least one item behind that page, counted among the
   rows its filters select when the operation ends. *)
SurvivingCursorHasUnseenItem ==
    /\ OneCursorPerUserAndType
    /\ PageShown => \A r \in CursorOfPage :
                       /\ r.offset_count = last.list.offset
                       /\ Remaining(r) > r.offset_count + Len(last.list.ids)

\* a "next" has shown the second page of a list and left its cursor in place
CursorSurvivesNext ==
    /\ PageShown
    /\ last.list.offset = PageSize
    /\ CursorOfPage # {}


(* C16: no exception escapes the router.  Every message with a body that is not
   blank is answered with one text, whatever call fails in whatever stage: a
   stage that throws is answered by POST's catch with its plain apology, and no
   request ends without a reply. *)
NoExceptionEscapes ==
    Answered /\ Trim(last.body) # "" =>
        /\ last.reply # ""
        /\ last.by \in {"forwarded", "reply", "pagination", "confirmation", "classification"}
        /\ last.threw => last.reply = Trouble /\ last.failed # {}

\* a query of the confirmation stage failed and the user was sent the apology
ThrowAnsweredWithApology ==
    /\ Answered
    /\ last.threw
    /\ last.by = "confirmation"
    /\ last.reply = Trouble


\* the response carries no JSON object that can be read
Unparseable(response) ==
    response.fails \/ jsonMatch(response.text) = "" \/ ~response.parses

(* C17: analyzeMessage returns, for every response of the model and for a failed
   request, an analysis whose intent is create, get, update or unknown, whose
   entityType is task, reminder, order, product or none (null, or left out), and
   whose parameters bag is present; a response that cannot be read gives
   {unknown, none, {}}. *)
ClassifierReturnsValidAnalysis ==
    last.kind = "analysis" =>
        /\ last.analysis.intent \in {"create", "get", "update", "unknown"}
        /\ last.analysis.entityType \in {"task", "reminder", "order", "product",
                                         Null, Undefined, ""}
        /\ StartsWith(last.analysis.parameters, "{")
        /\ Unparseable(last.response) =>
              last.analysis = [intent |-> "unknown", entityType |-> Null, parameters |-> "{}"]


\* the body as the stages after the reply stage read it
Said == ToLowerCase(Trim(last.body))

\* the confirmation stage was called and has read the user's live confirmation
AtConfirmationStage ==
    /\ Answered
    /\ "handleConfirmation" \in last.calls
    /\ "pending_confirmations.select" \notin last.failed

DeleteFailed == "pending_confirmations.delete" \in last.failed

\* record r is gone and the user's other records are as they were
Removed(r) ==
    RowsOf(pending_confirmations, last.from) = RowsOf(last.before.conf, last.from) \ {r}

\* the user's records are as they were, expiry included
Kept == RowsOf(pending_confirmations, last.from) = RowsOf(last.before.conf, last.from)

(* C18: with a live task-update-confirmation, yes (yes, y, confirm, or a body that
   begins with yes) applies the pending updates to the subject task and removes
   the confirmation, also when the update fails; no (no, n, cancel, or a body that
   begins with no) removes the confirmation and leaves every task unchanged; any
   other body leaves every task and the confirmation unchanged and asks again,
   except that the confirmation is removed when the subject task does not exist.
   A removal is missing only where the DELETE itself failed. *)
TaskConfirmationResolved ==
    \A r \in last.confirmation :
        (AtConfirmationStage /\ IsTaskUpdateConfirmation(r)) =>
            /\ last.by = "confirmation"
            /\ orders = last.before.orders
            /\ IF isYes(Said)
               THEN /\ tasks = IF TaskExists(last.before, r.task_id)
                                  /\ "updateTask" \notin last.failed
                               THEN updateTask(last.before, r.task_id, r.updates).tasks
                               ELSE last.before.tasks
                    /\ DeleteFailed \/ Removed(r)
               ELSE IF isNo(Said)
               THEN /\ tasks = last.before.tasks
                    /\ DeleteFailed \/ Removed(r)
               ELSE /\ tasks = last.before.tasks
                    /\ IF TaskExists(last.before, r.task_id)
                       THEN /\ Kept
                            /\ \/ last.threw
                               \/ last.reply = "Please confirm: Do you want to update task? Reply yes or no."
                       ELSE last.threw \/ DeleteFailed \/ Removed(r)

\* an unclear answer about a task that has been deleted removed the confirmation
MissingTaskEndsConfirmation ==
    \E r \in last.confirmation :
        /\ AtConfirmationStage
        /\ IsTaskUpdateConfirmation(r)
        /\ ~isYes(Said) /\ ~isNo(Said)
        /\ ~TaskExists(last.before, r.task_id)
        /\ last.reply = "The pending update has expired. Please try again."
        /\ Removed(r)

\* "yes please" has completed the task the user was asked about
ConfirmedUpdateApplied ==
    \E r \in last.confirmation :
        /\ AtConfirmationStage
        /\ IsTaskUpdateConfirmation(r)
        /\ last.body = "yes please"
        /\ tasks # last.before.tasks
        /\ Removed(r)


\* the orders created by the request
CreatedOrders == orders \ last.before.orders

(* C19: with a live duplicate-order decision, a body that begins with new creates
   exactly one order, pending, with the product and quantity of the pending
   updates and the date read from the stored text, and removes the confirmation;
   a body that begins with update writes the product and quantity of the pending
   updates to the subject order, creates none, and removes the confirmation; no
   or cancel removes the confirmation and changes no order; any other body
   changes nothing and keeps the confirmation.  In all four cases the stage
   answers the message.  A removal is missing only where the DELETE itself
   failed, and an order only where createOrder or updateOrder failed. *)
DuplicateDecisionResolved ==
    \A r \in last.confirmation :
        (AtConfirmationStage /\ IsDuplicateDecision(r)) =>
            /\ last.by = "confirmation"
            /\ last.reply # ""
            /\ tasks = last.before.tasks
            /\ IF isNew(Said)
               THEN /\ last.before.orders \subseteq orders
                    /\ Cardinality(CreatedOrders) = IF "createOrder" \in last.failed THEN 0 ELSE 1
                    /\ \A o \in CreatedOrders :
                          /\ o.user_number = last.from
                          /\ o.product_name = r.updates.productName
                          /\ o.quantity = r.updates.quantity
                          /\ o.status = "pending"
                          /\ o.fulfillment_date = ParseDateTime(r.updates.fulfillmentDate, last.at)
                    /\ DeleteFailed \/ Removed(r)
               ELSE IF isUpdate(Said)
               THEN /\ orders = IF "updateOrder" \in last.failed THEN last.before.orders
                                ELSE {IF o.order_id = r.order_id
                                      THEN [o EXCEPT !.product_name = r.updates.productName,
                                                     !.quantity = r.updates.quantity]
                                      ELSE o : o \in last.before.orders}
                    /\ DeleteFailed \/ Removed(r)
               ELSE IF isNo(Said)
               THEN /\ orders = last.before.orders
                    /\ DeleteFailed \/ Removed(r)
               ELSE /\ orders = last.before.orders
                    /\ Kept
                    /\ last.reply = "Please reply 'new' for a new order or 'update' to modify the existing one."

\* "new one" has created the order the user was asked about
NewAnswerCreatesOrder ==
    \E r \in last.confirmation :
        /\ AtConfirmationStage
        /\ IsDuplicateDecision(r)
        /\ last.body = "new one"
        /\ Cardinality(CreatedOrders) = 1
        /\ Removed(r)

\* "update it" has written the product name of the pending updates to the order
UpdateAnswerPatchesOrder ==
    \E r \in last.confirmation :
        /\ AtConfirmationStage
        /\ IsDuplicateDecision(r)
        /\ last.body = "update it"
        /\ orders # last.before.orders
        /\ CreatedOrders \subseteq {o \in orders : o.order_id = r.order_id}
        /\ Removed(r)


\* an update of one task by description was classified and the matcher was asked;
\* no call failed
FuzzyUpdate ==
    /\ Answered
    /\ last.by = "classification"
    /\ "findMatchingTask" \in last.calls
    /\ last.failed = {}

\* the tasks of the user before the request, as the matcher is given them
TasksBefore ==
    getTasks(last.before, last.from, [status |-> "", offset |-> 0, limit |-> MatchLimit]).tasks

\* the tasks the request has modified
ModifiedTasks == {t \in last.before.tasks : t \notin tasks}

(* C20: an update of a task found by description modifies nothing and stores no
   confirmation when the matcher names no candidate; when the match needs
   confirmation, it stores a task-update-confirmation for the best match, with a
   fresh expiry, and modifies no task; otherwise it applies the update to the
   best match and stores no confirmation.  At most one task is modified. *)
FuzzyUpdateSettled ==
    FuzzyUpdate =>
        /\ Cardinality(ModifiedTasks) <= 1
        /\ Cardinality(tasks) = Cardinality(last.before.tasks)
        /\ orders = last.before.orders
        /\ IF "pending_confirmations.insert" \in last.calls
           THEN /\ tasks = last.before.tasks
                /\ \E r \in RowsOf(pending_confirmations, last.from) :
                      /\ IsTaskUpdateConfirmation(r)
                      /\ r.task_id = TasksBefore[1].id
                      /\ r.expires_at = last.at + ConfirmationTTL
           ELSE /\ Kept
                /\ IF "updateTask" \in last.calls
                   THEN /\ \A t \in ModifiedTasks : t.id = TasksBefore[1].id
                        /\ last.updated = {TaskKey(TasksBefore[1].id)}
                   ELSE tasks = last.before.tasks


\* the orders the request has modified
ModifiedOrders == {o \in last.before.orders : o \notin orders}

(* C21: every task and every order a message modifies is owned by the sender of
   the message, whatever stage answers it. *)
UpdatesStayWithOwner ==
    Answered =>
        /\ \A t \in ModifiedTasks : t.user_number = last.from
        /\ \A o \in ModifiedOrders : o.user_number = last.from


\* one call of the resolver has been made
Resolved == last.kind = "resolve"

(* C22: for every text and every maxPosition >= 0, resolveSingle returns null (0)
   or a position within 1..maxPosition, and every element of the result of
   resolveMultiple lies within 1..maxPosition; with maxPosition = 0 the first
   returns null and the second the empty list. *)
ResolverStaysInRange ==
    Resolved =>
        /\ last.single \in 0..last.maxPosition
        /\ \A i \in DOMAIN last.multiple : last.multiple[i] \in 1..last.maxPosition
        /\ last.maxPosition = 0 => last.single = 0 /\ last.multiple = <<>>

\* a text with a number out of range and a number within: the single resolver,
\* which tries the first match of each pattern, finds none, the multiple one the
\* number within
OutOfRangeNumberRejected ==
    /\ Resolved
    /\ last.text = "order 12 then 3"
    /\ last.maxPosition = 5
    /\ last.single = 0
    /\ last.multiple = <<3>>


(* C23: with maxPosition = 5, resolveSingle("3rd") = 3, resolveSingle("order 5") = 5,
   resolveSingle("99") = null, resolveMultiple("1,2,3") = [1,2,3] and
   resolveMultiple("second and fourth") = [2,4]. *)
ResolverExamples ==
    (Resolved /\ last.maxPosition = 5) =>
        /\ last.text = "3rd" => last.single = 3
        /\ last.text = "order 5" => last.single = 5
        /\ last.text = "99" => last.single = 0
        /\ last.text = "1,2,3" => last.multiple = <<1, 2, 3>>
        /\ last.text = "second and fourth" => last.multiple = <<2, 4>>

\* the last of the examples has been resolved
SecondAndFourthResolved ==
    /\ Resolved
    /\ last.maxPosition = 5
    /\ last.text = "second and fourth"
    /\ last.multiple = <<2, 4>>


\* position p is written in the text, as a number or as an ordinal word
Mentions(text, p) ==
    LET lowerMessage == Trim(ToLowerCase(text))
    IN \/ \E r \in DigitRuns(lowerMessage) : ParseInt(SubSeq(lowerMessage, r[1], r[2])) = p
       \/ \E i \in DOMAIN OrdinalWords :
             OrdinalWords[i][2] = p /\ HasWord(lowerMessage, OrdinalWords[i][1])

(* C24: the result of resolveMultiple is strictly ascending, hence without
   duplicates, and holds exactly the positions within 1..maxPosition that the text
   mentions as a number or as an ordinal word; a position mentioned both ways
   appears once. *)
ResolveMultipleIsSortedUnion ==
    Resolved =>
        /\ \A i, j \in DOMAIN last.multiple : i < j => last.multiple[i] < last.multiple[j]
        /\ Range(last.multiple) = {p \in 1..last.maxPosition : Mentions(last.text, p)}

\* numbers given out of order and twice, one of them out of range
RepeatedNumbersSortedOnce ==
    /\ Resolved
    /\ last.text = "5 1 3 1"
    /\ last.maxPosition = 4
    /\ last.multiple = <<1, 3>>

\* a position written as a number and as a word is listed once
NumberAndWordListedOnce ==
    /\ Resolved
    /\ last.text = "3 and third"
    /\ last.maxPosition = 5
    /\ last.multiple = <<3>>


\* a reply to a list with a stored context of n > 0 items, in whose text neither
\* parser finds a position within 1..n, and which the classifier did not
\* understand either, so that no parameter of its names an item
NoPositionFound(c) ==
    LET n == IF c.entity_type = "task" THEN Len(c.task_ids) ELSE Len(c.order_ids)
    IN /\ Answered
       /\ last.referred > 0
       /\ ~last.isForwarded
       /\ "reply:unknown" \in last.calls
       /\ c.entity_type \in {"task", "order"}
       /\ n > 0
       /\ OrderNumberOf[last.body, n] = 0
       /\ OrderNumbersOf[last.body, n] = <<>>

(* C25: a reply that needs a target and in whose text the resolver finds no
   position of the list modifies no task and no order. *)
UnresolvedReplyModifiesNothing ==
    \A c \in last.context :
        NoPositionFound(c) => ModifiedTasks = {} /\ ModifiedOrders = {}


\* fresh classification has answered a get of tasks, or a get of orders that names
\* no order id, and no call failed
FreshGet ==
    /\ Answered
    /\ last.by = "classification"
    /\ "get" \in last.calls
    /\ last.calls \cap {"getTasks", "getOrders"} # {}
    /\ last.failed = {}

FreshGetType == IF "getTasks" \in last.calls THEN "task" ELSE "order"

\* the body names one of the user's orders by its number
OrderNumberNamed ==
    /\ FreshGetType = "order"
    /\ parseOrderNumberFromMessage(last.body,
           Len(getOrders(last.before, last.from,
                         [status |-> "", offset |-> 0, limit |-> DuplicateLimit]).orders)) # 0

\* the first page under the filters of the given status has been fetched and
\* shown, and cursor and context are as the claim says
FirstPageStored(status) ==
    LET filters == FirstPage(status)
        type == FreshGetType
        ids == IF type = "task" THEN TaskIds(getTasks(last.before, last.from, filters).tasks)
               ELSE OrderIds(getOrders(last.before, last.from, filters).orders)
        total == IF type = "task" THEN getTasks(last.before, last.from, filters).total
                 ELSE getOrders(last.before, last.from, filters).total
    IN /\ Len(ids) <= PageSize
       /\ last.list = [entity_type |-> type, ids |-> ids, offset |-> 0]
       /\ \A r \in CursorOfPage :
             /\ r.offset_count = 0
             /\ r.total_count = total
             /\ r.filters = filters
             /\ r.expires_at = last.at + CursorTTL
       /\ Cardinality(CursorOfPage) = IF total > Len(ids) THEN 1 ELSE 0
       /\ \E c \in RowsOf(user_message_context, last.from) :
             /\ c.entity_type = type
             /\ IF type = "task"
                THEN c.task_ids = ids /\ c.task_mappings = MappingsOf(ids, 0)
                ELSE c.order_ids = ids /\ c.order_mappings = MappingsOf(ids, 0)
       /\ Cardinality(RowsOf(user_message_context, last.from)) = 1

(* C26, as stated: a fresh get of tasks, or of orders without an explicit order
   id, fetches the first page of at most 5 items; afterwards a cursor of the user
   and the entity type exists if and only if the total exceeds the number of items
   returned, with offset 0 and the filters used, and no earlier one; and the
   context holds the identifiers of the page in display order. *)
FreshGetStoresFirstPage ==
    FreshGet => \E status \in {""} \cup ValidStatuses : FirstPageStored(status)

(* C26, amended: the same, for a get of tasks and for a get of orders whose body
   names none of the user's orders by number. *)
FreshGetWithoutNumberStoresFirstPage ==
    (FreshGet /\ ~OrderNumberNamed) =>
        \E status \in {""} \cup ValidStatuses : FirstPageStored(status)

\* a get of the pending orders, all of which fit on one page, has removed the
\* cursor an earlier get of the orders had stored
OnePageListRemovesCursor ==
    /\ FreshGet
    /\ ~OrderNumberNamed
    /\ FreshGetType = "order"
    /\ \E r \in last.cursor : r.entity_type = "order"
    /\ CursorOfPage = {}
    /\ FirstPageStored("pending")

\* a get of the tasks has put a cursor at offset 0 in the place of one that stood
\* at the second page
NewListResetsCursor ==
    /\ FreshGet
    /\ FreshGetType = "task"
    /\ \E r \in last.cursor : r.entity_type = "task" /\ r.offset_count = PageSize
    /\ \E r \in CursorOfPage : r.offset_count = 0
    /\ FirstPageStored("")


\* fresh classification has read the message as an update of an order; the
\* model's classifier never marks an update as bulk
FreshOrderUpdate ==
    /\ Answered
    /\ last.by = "classification"
    /\ "update" \in last.calls
    /\ last.calls \cap {"entityType:order", "entityType:product"} # {}

\* the order id among the parameters of the classification
ClassifiedOrderId ==
    CHOOSE id \in {a.parameters.orderId : a \in Analyses} : ("orderId:" \o id) \in last.calls

(* C27: a fresh update of an order that is not a bulk update and names no order id
   modifies no order, stores no confirmation and asks which order to update; one
   whose order id names no existing order modifies no order and answers that the
   order could not be updated. *)
OrderUpdateNeedsOrderId ==
    FreshOrderUpdate =>
        /\ ClassifiedOrderId = "" =>
              /\ orders = last.before.orders
              /\ pending_confirmations = last.before.conf
              /\ last.reply = "Please specify which order to update (e.g., 'update order #123')."
        /\ (/\ ClassifiedOrderId # ""
            /\ \A o \in last.before.orders : o.order_id # ClassifiedOrderId) =>
              /\ orders = last.before.orders
              /\ last.reply = "I'm sorry, I couldn't update that order. Please check the order ID and try again."

\* an update of order "1", an id no order has, was refused
UnknownOrderIdRefused ==
    /\ FreshOrderUpdate
    /\ ClassifiedOrderId = "1"
    /\ last.failed = {}
    /\ "updateOrder" \in last.calls
    /\ orders = last.before.orders
    /\ last.reply = "I'm sorry, I couldn't update that order. Please check the order ID and try again."

\* an update of an order without an order id was answered with the question
OrderIdAskedFor ==
    /\ FreshOrderUpdate
    /\ ClassifiedOrderId = ""
    /\ "updateOrder" \notin last.calls
    /\ last.reply = "Please specify which order to update (e.g., 'update order #123')."


\* both handlers of a race have returned
RaceOver == last.kind = "race" /\ \A p \in DOMAIN last.proc : last.proc[p].pc = "done"

\* the replies of a handler that has done what it was asked
NormalReplies ==
    {"formatTaskResponse", "formatOrderResponse", NoMoreItems,
     "No more tasks to show.", "No more orders to show."}

(* C28: when two messages of one user are handled at the same time, in any
   interleaving of their store operations, both handlers end with a normal reply,
   no second cursor for one (user, entity type) and no second context of the user
   exists, and the context and each cursor the handlers wrote are as one of the
   two left them. *)
SameUserRaceIsLastWriterWins ==
    RaceOver =>
        /\ \A p \in DOMAIN last.proc : last.proc[p].reply \in NormalReplies
        /\ OneCursorPerUserAndType
        /\ Cardinality(RowsOf(user_message_context, last.from)) <= 1
        /\ \A c \in RowsOf(user_message_context, last.from) :
              \E p \in DOMAIN last.proc : last.proc[p].ctx = {c}
        /\ \A type \in {"task", "order"} :
              (\E p \in DOMAIN last.proc : last.proc[p].type = type) =>
                  \E p \in DOMAIN last.proc :
                      /\ last.proc[p].type = type
                      /\ last.proc[p].cur = {r \in pagination_state :
                                               r.user_number = last.from /\ r.entity_type = type}


\* the user pages through a list whose cursor is the only one they have
Browsing == last.kind = "browse" /\ last.alone

\* the number of "next" after which the list has been shown to its end
LastNext == ((Len(last.all) + PageSize - 1) \div PageSize) - 1

\* the ids of all pages shown, one after the other
RECURSIVE IdsShown(_)
IdsShown(pages) ==
    IF pages = <<>> THEN <<>> ELSE pages[1].ids \o IdsShown(Tail(pages))

\* the pages shown so far are the list in repository order, five items a page;
\* the cursor stands at the last page shown until the list has been shown to its
\* end and is deleted then; a "next" after that is answered with the static
\* message and fetches nothing
PagedToItsEnd ==
    LET N == Len(last.all)
        shown == IF last.nexts < LastNext THEN last.nexts ELSE LastNext
        cursors == {r \in pagination_state : r.user_number = last.from}
    IN /\ N > PageSize
       /\ Len(last.pages) = 1 + shown
       /\ \A j \in 1..Len(last.pages) :
             /\ last.pages[j].entity_type = last.type
             /\ last.pages[j].offset = PageSize * (j - 1)
             /\ last.pages[j].ids = SubSeq(last.all, PageSize * (j - 1) + 1,
                                           Min(PageSize * j, N))
       /\ last.nexts >= LastNext => IdsShown(last.pages) = last.all
       /\ IF last.nexts < LastNext
          THEN \E r \in cursors : /\ r.entity_type = last.type
                                  /\ r.offset_count = PageSize * last.nexts
          ELSE \A r \in cursors : r.entity_type # last.type
       /\ last.nexts > LastNext =>
             /\ last.reply = NoMoreItems
             /\ last.calls \cap {"getTasks", "getOrders"} = {}
             /\ last.list = NoList

(* C29: from a fresh get over N > 5 items of one entity type that nothing changes,
   the i-th "next" shows the page at offset 5 i, the items 5 i + 1 .. 5 i + 5 of the
   list in repository order, so that after ceil(N/5) - 1 "next" every item has
   been shown exactly once, in that order, and the cursor is deleted; and every
   further "next" is answered with the static no-more-items message without a
   fetch. *)
FreshListIsPagedToItsEnd == last.kind = "browse" => PagedToItsEnd

(* C29, amended: the same, for a user who has no live cursor of the other entity
   type when the list is asked for. *)
PagingShowsEveryItemOnce == Browsing => PagedToItsEnd

\* the tasks were shown to their end and a further "next" went on with the
\* orders the user had listed before
NextResumesOlderList ==
    /\ last.kind = "browse"
    /\ ~last.alone
    /\ last.type = "task"
    /\ last.nexts > LastNext
    /\ last.list.entity_type = "order"
    /\ last.list.offset = PageSize

\* eleven tasks have been shown on three pages and a third "next" was answered
\* with the static message
NextAfterLastPage ==
    /\ Browsing
    /\ last.type = "task"
    /\ Len(last.all) = 11
    /\ last.nexts = 3
    /\ Len(last.pages) = 3
    /\ IdsShown(last.pages) = last.all
    /\ last.reply = NoMoreItems

\* ten tasks: the second page ends the list and removes the cursor
FullLastPageEndsList ==
    /\ Browsing
    /\ last.type = "task"
    /\ Len(last.all) = 2 * PageSize
    /\ last.nexts = 1
    /\ Len(last.list.ids) = PageSize
    /\ pagination_state = {}


\* a reply to the page shown last, a page at an offset above 0 that the user's
\* context holds, names one number displayed on that page and has updated rows
ReplyNamesNumberOfLaterPage(c, m) ==
    LET page == last.referredList
        ids == IF c.entity_type = "task" THEN c.task_ids ELSE c.order_ids
    IN /\ AnsweredWithoutFault
       /\ last.by = "reply"
       /\ last.referred > 0
       /\ ~last.isForwarded
       /\ page.offset > 0
       /\ c.entity_type = page.entity_type
       /\ ids = page.ids
       /\ NamedPositions(last.body) = {m}
       /\ page.offset < m
       /\ m <= page.offset + Len(page.ids)
       /\ last.updated # {}

(* C30: after a page at offset k > 0 was shown with its items numbered
   k + 1 .. k + n, a reply-update that names one displayed number m,
   k < m <= k + n, updates exactly the item displayed as number m and no other
   item of the page. *)
ReplyToLaterPageUpdatesNamedItem ==
    \A c \in last.context : \A m \in 1..(2 * PageSize) :
        ReplyNamesNumberOfLaterPage(c, m) =>
            LET page == last.referredList
                named == KeyOf(page.entity_type, page.ids[m - page.offset])
            IN /\ last.updated = {named}
               /\ \A t \in ModifiedTasks :
                     page.entity_type = "task" /\ t.id = page.ids[m - page.offset]
               /\ \A o \in ModifiedOrders :
                     page.entity_type = "order" /\ o.order_id = page.ids[m - page.offset]

\* the reply "7 done" to the second page of eleven tasks, shown as 6 to 10, has
\* set all five tasks of the page to completed
ReplyToLaterPageUpdatesWholePage ==
    /\ AnsweredWithoutFault
    /\ last.by = "reply"
    /\ last.body = "7 done"
    /\ last.referredList.entity_type = "task"
    /\ last.referredList.offset = PageSize
    /\ Len(last.referredList.ids) = PageSize
    /\ last.updated = {TaskKey(id) : id \in Range(last.referredList.ids)}
    /\ \A t \in tasks : Contains(last.referredList.ids, t.id) => t.status = "completed"


\* the user asked for the orders when a cursor of their tasks was alive, and
\* has sent "next" since
NextAfterOrdersFollowedTasks ==
    /\ last.kind = "browse"
    /\ last.type = "order"
    /\ ~last.alone
    /\ last.nexts > 0

(* C31: "next" continues the list shown last: after a task list of several pages
   and then an order list of any length, a "next" returns no page of tasks and
   does not rewrite the user's context to entity type task. *)
NextContinuesLatestList ==
    NextAfterOrdersFollowedTasks =>
        /\ last.list.entity_type # "task"
        /\ \A c \in user_message_context :
              c.user_number = last.from => c.entity_type # "task"

\* the orders fitted on one page, and the "next" after them showed the second
\* page of the tasks and made the context one of tasks
NextAfterShortOrderListShowsTasks ==
    /\ NextAfterOrdersFollowedTasks
    /\ Len(last.all) <= PageSize
    /\ last.nexts = 1
    /\ last.list.entity_type = "task"
    /\ last.list.offset = PageSize
    /\ \E c \in user_message_context : c.user_number = last.from /\ c.entity_type = "task"


\* both handlers of a race about an order have returned
OrderRaceOver == last.kind = "orders" /\ \A p \in DOMAIN last.proc : last.proc[p].pc = "done"

\* the orders created since the two requests arrived
CreatedInRace == {o \in orders : o \notin last.before}

\* two answers "new" met one live decision
TwoNewOnOneDecision ==
    /\ OrderRaceOver
    /\ last.prior = "asked"
    /\ \A p \in DOMAIN last.proc : last.proc[p].handler = "new"

(* C32: a pending duplicate-order decision is consumed at most once: when two
   answers "new" of one user are handled at the same time against one live
   confirmation, at most one order is created from its pendingUpdates. *)
DecisionConsumedOnce ==
    TwoNewOnOneDecision => Cardinality(CreatedInRace) <= 1

\* both handlers read the confirmation before either deleted it, and each
\* created an order from it
DecisionConsumedTwice ==
    /\ TwoNewOnOneDecision
    /\ Cardinality(CreatedInRace) = 2
    /\ \A p \in DOMAIN last.proc : last.proc[p].reply = "formatCreateOrderResponse"
    /\ pending_confirmations = {}



\* the user's pending orders with the fields of the raced request
RacedOrders ==
    {o \in orders : /\ o.user_number = last.from
                    /\ o.status = "pending"
                    /\ IsSimilarOrder(o, RacedProduct, RacedQuantity,
                                      ParseDateTime("tomorrow 5pm", now))}

\* two requests to create the same dated order have both been handled
TwoSameCreates ==
    /\ OrderRaceOver
    /\ last.date = "tomorrow 5pm"
    /\ \A p \in DOMAIN last.proc : last.proc[p].handler = "create"

(* C33: the duplicate gate holds under concurrency: when two create-order
   messages of one user with the same product, quantity and fulfillment date are
   handled at the same time, at most one pending order with those fields exists
   when both handlers have finished. *)
GateHoldsUnderRace ==
    TwoSameCreates => Cardinality(RacedOrders) <= 1

\* both handlers compared before either inserted: two pending orders with the
\* same fields, and no question asked
GatePassedTwice ==
    /\ TwoSameCreates
    /\ last.prior = "none"
    /\ Cardinality(RacedOrders) = 2
    /\ \A p \in DOMAIN last.proc : last.proc[p].reply = "formatCreateOrderResponse"
    /\ pending_confirmations = {}



\* the calls inside the try blocks of handleTaskPagination and
\* handleOrderPagination
PageCalls ==
    {"getTasks", "getOrders", "user_message_context.upsert",
     "pagination_state.update", "pagination_state.delete"}

\* "next" found a cursor and a call of the page handler failed
NextFailed ==
    /\ NextReachedPagination
    /\ last.by = "pagination"
    /\ last.cursor # {}
    /\ last.failed # {}
    /\ last.failed \subseteq PageCalls

(* C34: a failed store or repository call while handling "next" aborts the
   stage without partial effects: the reply is an apology, and the cursor and
   the context are exactly as before the message. *)
FailedNextLeavesNoTrace ==
    NextFailed =>
        /\ last.reply \in {"I'm sorry, I couldn't retrieve the next tasks. Please try again.",
                           "I'm sorry, I couldn't retrieve the next orders. Please try again."}
        /\ pagination_state = last.before.cur
        /\ user_message_context = last.before.ctx

\* the update of the cursor failed after the context had been rewritten for the
\* page that was not shown
FailedNextRewroteContext ==
    /\ NextFailed
    /\ last.failed = {"pagination_state.update"}
    /\ pagination_state = last.before.cur
    /\ user_message_context # last.before.ctx
    /\ \E c \in user_message_context :
          /\ c.user_number = last.from
          /\ c.entity_type = "task"
          /\ DOMAIN c.task_mappings = {"6", "7", "8", "9", "10"}



\* fresh classification has read the message as a request to create an order
FreshOrderCreate ==
    /\ Answered
    /\ last.by = "classification"
    /\ "create" \in last.calls
    /\ last.calls \cap {"entityType:order", "entityType:product"} # {}

\* the fulfillment date among the parameters of the classification
ClassifiedDate ==
    CHOOSE d \in {a.parameters.fulfillmentDate : a \in Analyses} :
        ("fulfillmentDate:" \o d) \in last.calls

\* the request names no fulfillment date, or one that parseDateTime cannot read
Undated == ClassifiedDate = "" \/ ParseDateTime(ClassifiedDate, last.at) = 0

(* C35: the duplicate gate fails open.  When a similar pending order is found and
   storing the duplicate-order decision fails, the order is created all the same
   and the reply is the create response; and when the request has no fulfillment
   date, or one that cannot be parsed, the order is inserted without any
   comparison. *)
DuplicateGateFailsOpen ==
    FreshOrderCreate =>
        /\ last.failed = {"pending_confirmations.upsert"} =>
              /\ "getOrders" \in last.calls
              /\ last.reply = "formatCreateOrderResponse"
              /\ Cardinality(InsertedOrders) = 1
              /\ pending_confirmations = last.before.conf
        /\ (Undated /\ last.failed = {}) =>
              /\ "getOrders" \notin last.calls
              /\ "pending_confirmations.upsert" \notin last.calls
              /\ last.reply = "formatCreateOrderResponse"
              /\ Cardinality(InsertedOrders) = 1
              /\ pending_confirmations = last.before.conf

\* the question could not be stored, and a second order like the first was
\* created
UnstoredQuestionCreatesOrder ==
    /\ FreshOrderCreate
    /\ last.failed = {"pending_confirmations.upsert"}
    /\ last.reply = "formatCreateOrderResponse"
    /\ \E o \in InsertedOrders : \E q \in last.before.orders :
          /\ q.user_number = o.user_number
          /\ q.status = "pending"
          /\ IsSimilarOrder(q, o.product_name, o.quantity, o.fulfillment_date)

\* a request whose date cannot be parsed created a second order like the first
\* without a comparison
UndatedDuplicateCreated ==
    /\ FreshOrderCreate
    /\ ClassifiedDate = "sometime"
    /\ last.failed = {}
    /\ "getOrders" \notin last.calls
    /\ \E o \in InsertedOrders : \E q \in last.before.orders :
          /\ q.user_number = o.user_number
          /\ q.status = "pending"
          /\ IsSimilarOrder(q, o.product_name, o.quantity, o.fulfillment_date)



\* the matcher has answered
Matched == last.kind = "match"

\* the highest confidence among the candidates, 0 without candidates
TopConfidence ==
    LET c == last.response.confidences
    IN IF c = <<>> THEN 0 ELSE CHOOSE x \in Range(c) : \A y \in Range(c) : y <= x

(* C36: for every list of candidates the model returns, bestMatch is a candidate
   of maximal confidence among allMatches, null exactly when there are none, and
   needsConfirmation is true whenever the top confidence is below 0.8 or more
   than one candidate has a confidence above 0.6; when the model's output is
   unusable or the call fails, the result is {bestMatch: null, allMatches: [],
   needsConfirmation: false}. *)
BestMatchIsMostConfident ==
    Matched =>
        LET result == last.result
            c == last.response.confidences
        IN IF last.response.kind = "json"
           THEN /\ Len(result.allMatches) = Len(c)
                /\ (result.bestMatch = NoTaskMatch) <=> (c = <<>>)
                /\ c # <<>> =>
                      /\ \E i \in DOMAIN result.allMatches : result.allMatches[i] = result.bestMatch
                      /\ result.bestMatch.confidence = TopConfidence
                /\ (c # <<>> /\ (TopConfidence < ConfirmBelow
                                 \/ Cardinality({i \in DOMAIN c : c[i] > AmbiguousAbove}) > 1))
                      => result.needsConfirmation
           ELSE result = NoMatchResult

\* the model listed the better candidate second, and the first was taken
FirstCandidateTaken ==
    /\ Matched
    /\ last.response.confidences = <<40, 90>>
    /\ last.result.bestMatch.taskId = 1
    /\ last.result.bestMatch.confidence = 40
    /\ last.result.needsConfirmation



\* the number a pattern's match holds, 0 when the pattern does not match
MatchedNumber(s, hit) ==
    IF hit = {} THEN 0
    ELSE LET r == CHOOSE q \in hit : TRUE IN ParseInt(SubSeq(s, r[1], r[2]))

\* the numbers matched by the five numeric patterns, in the order the spec gives
NumbersInPatternOrder(s) ==
    << MatchedNumber(s, PatternKeywordNumber(s)), MatchedNumber(s, PatternNumberKeyword(s)),
       MatchedNumber(s, PatternOrdinalNumber(s)), MatchedNumber(s, PatternWholeNumber(s)),
       MatchedNumber(s, PatternBareNumber(s)) >>

(* C37: resolveSingle tries its patterns in a fixed order and the first in-range
   match wins.  An ordinal word within range (first..tenth, 1st..10th) is returned
   in preference to any numeric pattern; without one, the result is the number of
   the first of `order|task|item|number N`, `N(st|nd|rd|th)? order|task|item`,
   `Nth`, the whole-string number and any bare number whose match is within range;
   a match out of range does not stop the search; and the result is null when no
   match is within range. *)
SingleFollowsPatternOrder ==
    Resolved =>
        LET s == ToLowerCase(last.text)
            max == last.maxPosition
            words == {i \in DOMAIN OrdinalWords :
                         HasWord(s, OrdinalWords[i][1]) /\ OrdinalWords[i][2] <= max}
            numbers == NumbersInPatternOrder(s)
            inRange(k) == numbers[k] > 0 /\ numbers[k] <= max
        IN /\ words # {} => \E i \in words : last.single = OrdinalWords[i][2]
           /\ words = {} =>
                 \A k \in DOMAIN numbers :
                    (inRange(k) /\ \A i \in 1..(k - 1) : ~inRange(i)) => last.single = numbers[k]
           /\ (words = {} /\ \A k \in DOMAIN numbers : ~inRange(k)) => last.single = 0

\* "item 9" is out of range for a list of five, and "2 orders" is taken
LaterPatternYieldsPosition ==
    /\ Resolved
    /\ last.text = "item 9 and 2 orders"
    /\ last.maxPosition = 5
    /\ NumbersInPatternOrder(ToLowerCase(last.text))[1] = 9
    /\ last.single = 2

\* "2nd" is taken although "number 7" matches the first numeric pattern
OrdinalWordBeatsNumericPattern ==
    /\ Resolved
    /\ last.text = "the 2nd item and number 7"
    /\ last.maxPosition = 10
    /\ NumbersInPatternOrder(ToLowerCase(last.text))[1] = 7
    /\ last.single = 2

\* each pattern gives its leftmost match only: 8 and 12 are out of range for a
\* list of five and the 4 behind them is not looked at
OnlyLeftmostMatchTried ==
    /\ Resolved
    /\ last.text = "number 8 or 12th or 4"
    /\ last.maxPosition = 5
    /\ NumbersInPatternOrder(ToLowerCase(last.text)) = <<8, 0, 12, 0, 8>>
    /\ last.single = 0

=============================================================================
